---- MODULE Spec2Model ----
(***************************************************************************)
(* PluginManagerV2 (pkg/plugins/manager/managerv2.go): the plugin registry  *)
(* behind one sync.RWMutex, the dispatch calls, and Install / Uninstall /  *)
(* installPlugins over the plugins directory.                              *)
(*                                                                         *)
(* Goroutines are the members of Threads.  A goroutine runs one manager    *)
(* call at a time; th[t].pc is its position in the code.  A critical       *)
(* section that holds pluginsMu from its first to its last statement and   *)
(* calls nothing that locks is one step; every other statement that reads  *)
(* or writes shared state is a step of its own.                            *)
(***************************************************************************)
EXTENDS Naturals, Sequences, FiniteSets, TLC

\* ------------------------------------------------------------------ bounds
MaxCalls == 2      \* manager calls started in one behaviour
MaxEnts  == 3      \* PluginV2 objects alive at the same time
MaxSends == 3      \* Send calls on one resource stream

\* --------------------------------------------------------------- constants
Threads  == {"g1", "g2"}
NoThread == "none"
Nil      == 0                      \* the nil *plugins.PluginV2
Cells    == 1..MaxEnts             \* addresses of PluginV2 objects
Ids      == {"acme", "testdata"}
Versions == {"1.0.0", "2.0.0"}

\* var corePluginJSONPaths: the ids reserved for compiled-in core plugins
\* (the model keeps one of the five).
corePluginJSONPaths == {"testdata"}

\* m.Cfg.PluginsPath, and a second directory installPlugins is run over.
PluginsPath        == <<"data", "plugins">>
BundledPluginsPath == <<"data", "bundled">>
InstallRoots       == {PluginsPath, BundledPluginsPath}

\* The directories of the modelled file system.
DiskDirs == { <<"data">>, <<"data", "plugins">>,
              <<"data", "plugins", "acme">>, <<"data", "plugins", "testdata">>,
              <<"data", "other">> }

\* -------------------------------------------------------------------- paths
\* path/filepath.Clean on an absolute path, as a sequence of segments.
RECURSIVE CleanFrom(_, _)
CleanFrom(segs, acc) ==
    IF segs = << >> THEN acc
    ELSE LET s == Head(segs) IN
         CleanFrom(Tail(segs),
                   IF s = "." THEN acc
                   ELSE IF s = ".."
                        THEN (IF acc = << >> THEN acc ELSE SubSeq(acc, 1, Len(acc) - 1))
                        ELSE Append(acc, s))

Clean(path) == CleanFrom(path, << >>)

IsPrefix(a, b) == Len(a) <= Len(b) /\ SubSeq(b, 1, Len(a)) = a

\* Length of the longest common prefix of two cleaned paths.
RECURSIVE CommonLen(_, _)
CommonLen(a, b) ==
    IF a = << >> \/ b = << >> \/ Head(a) # Head(b) THEN 0
    ELSE 1 + CommonLen(Tail(a), Tail(b))

\* path/filepath.Rel(base, targ) for two absolute paths (it cannot fail for
\* those): "." when they are the same directory, otherwise one ".." for each
\* segment of base below the common prefix, then the rest of targ.
Rel(base, targ) ==
    LET b == Clean(base)
        t == Clean(targ)
        k == CommonLen(b, t)
    IN  IF b = t THEN << "." >>
        ELSE [i \in 1..(Len(b) - k) |-> ".."] \o SubSeq(t, k + 1, Len(t))

\* strings.HasPrefix(path, ".." + string(filepath.Separator)), path being
\* the segments of rel joined by the separator: the text starts with "../"
\* exactly when the first segment is ".." and another segment follows it.
HasParentPrefix(rel) == Len(rel) >= 2 /\ rel[1] = ".."

\* The containment check of Uninstall: TRUE when Uninstall refuses the
\* directory with ErrUninstallOutsideOfPluginDir.
OutsideOfPluginDir(dir) == HasParentPrefix(Rel(PluginsPath, dir))

\* What the sentence "dir is a descendant of the plugins root" means.
IsDescendant(dir) == IsPrefix(PluginsPath, Clean(dir)) /\ Clean(dir) # PluginsPath

\* ----------------------------------------------------------------- objects
\* A *plugins.PluginV2: the fields the manager reads, its decommissioned flag
\* and the state of its backend process.
Desc(id, class, ver, dir, backend) ==
    [used |-> TRUE, id |-> id, class |-> class, ver |-> ver, dir |-> dir,
     backend |-> backend, dec |-> FALSE, proc |-> "unstarted", type |-> "datasource"]

Free == [used |-> FALSE, id |-> "", class |-> "", ver |-> "", dir |-> << >>,
         backend |-> FALSE, dec |-> FALSE, proc |-> "unstarted", type |-> ""]

\* The plugins callers hand to Register: an external plugin inside the
\* plugins directory, three whose recorded directory is not inside it (the
\* parent of the root, the root itself, and a directory reached through
\* ".."), and a core plugin.
RegisterInputs ==
    { Desc("acme", "external", "1.0.0", <<"data", "plugins", "acme">>, TRUE),
      Desc("acme", "external", "1.0.0", <<"data">>, TRUE),
      Desc("acme", "external", "1.0.0", <<"data", "plugins">>, TRUE),
      Desc("acme", "external", "1.0.0", <<"data", "plugins", "..", "other">>, TRUE),
      Desc("testdata", "core", "1.0.0", <<"static", "testdata">>, FALSE) }

\* PluginV2.IsExternalPlugin
IsExternalPlugin(o) == o.class = "external"

\* -------------------------------------------------------------------- state
VARIABLES
    plugins,   \* m.plugins: id -> address of the PluginV2, Nil when absent
    writer,    \* the goroutine inside pluginsMu.Lock(), or NoThread
    ents,      \* the heap of PluginV2 objects
    disk,      \* directory -> "absent", "dir", or the version of the plugin in it
    th,        \* per goroutine: the call it runs and where it is in it
    calls,     \* manager calls started so far
    loop,      \* per PluginV2: where its supervision goroutine is
    loopCtx,   \* the context of the supervision goroutines: its error once done
    loopRes,   \* per PluginV2: what restartKilledProcess returned
    shutdown,  \* Run: its context and where it is in stop()
    task,      \* per PluginV2: the goroutine stop() started for it
    stops,     \* per PluginV2: the Stop calls stop() has made on it
    stream,    \* a callResourceResponseStream: its fields, channel and context
    snd,       \* the goroutine that calls Send and Close on the stream
    rcv,       \* the goroutine that calls Recv on the stream
    api,       \* the dispatch call (QueryData, CollectMetrics, CheckHealth, CallResource) under way
    plan,      \* the chunks the plugin of a resource call sends, in order
    drain,     \* flushStream: where it is and what it has processed
    w,         \* the http.ResponseWriter of the resource call
    call,      \* callResourceInternal: where it is, the plugin's error, its result
    iter       \* the goroutine in Plugins, Renderer, StaticRoutes or IsSupported

\* The state of the supervisor, of the resource stream, of the dispatch call
\* and of the drain loop.
supVars    == <<loop, loopCtx, loopRes, shutdown, task, stops>>
streamVars == <<stream, snd, rcv>>
apiVars    == <<api>>
drainVars  == <<plan, drain, w, call>>
listVars   == <<iter>>

vars == <<plugins, writer, ents, disk, th, calls, supVars, streamVars, apiVars, drainVars,
          listVars>>

Ops == {"Register", "unregister", "Plugin", "QueryData", "CollectMetrics",
        "UnregisterAndStop", "Uninstall", "Install", "installPlugins"}

\* A goroutine that starts call op: nothing looked up, nothing done yet.
\* found, plugin and p are the call's local pointers; obj is a copy of what
\* plugin pointed to when the call looked it up, eff the list of the effects
\* the call has had so far, in order, dir the ExistingPluginDir of a
\* DuplicatePluginError, and loaded the ids of the plugins LoadAll returned,
\* in its order.
Call(op, id, ver, path) ==
    [pc |-> "start", op |-> op, id |-> id, ver |-> ver, path |-> path,
     found |-> Nil, plugin |-> Nil, p |-> Nil, res |-> "running", dir |-> << >>,
     obj |-> Free, eff |-> << >>, list |-> << >>, loaded |-> << >>,
     hitDec |-> FALSE]

Idle == [Call("none", "", "", << >>) EXCEPT !.pc = "idle", !.res = "none"]

CanStart(t) == th[t].pc = "idle" /\ calls < MaxCalls

\* The call returns r.  Its locals go with it; of the pointers only the value
\* a Plugin call returned stays, in p.
Return(rec, r) ==
    [rec EXCEPT !.pc = "done", !.res = r, !.found = Nil, !.plugin = Nil,
                !.list = << >>, !.p = IF rec.op = "Plugin" THEN @ ELSE Nil]

\* Objects nothing refers to any more are dropped from the heap.
Refs(m, T) ==
    {m[i] : i \in Ids} \cup UNION { {T[t].found, T[t].plugin, T[t].p} : t \in Threads }
       \cup UNION { {T[t].list[k] : k \in 1..Len(T[t].list)} : t \in Threads }

\* The objects a caller of the manager can hold: those in the map and those
\* a call in progress has looked up.
Held(m, T) ==
    ({m[i] : i \in Ids}
       \cup UNION { IF T[t].pc = "done" THEN {} ELSE {T[t].found, T[t].plugin, T[t].p}
                    : t \in Threads }) \ {Nil}

Sweep(E, m, T) == [c \in Cells |-> IF c \in Refs(m, T) THEN E[c] ELSE Free]

FreeCells(E) == {c \in Cells : ~E[c].used}
NewCell(E)   == CHOOSE c \in FreeCells(E) : \A d \in FreeCells(E) : c <= d

\* sync.RWMutex: Lock and RLock both wait while a writer is inside, also when
\* the writer is the calling goroutine itself (the mutex is not reentrant).
\* Readers hold the lock only within one step, so no reader count is kept.
CanRLock(t) == writer = NoThread
CanLock(t)  == writer = NoThread

\* No plugin has been handed to start() and Run waits for its context; the
\* supervision goroutines run in SupSpec.
SupIdle ==
    /\ loop = [c \in Cells |-> "none"]
    /\ loopCtx = "background"
    /\ loopRes = [c \in Cells |-> "none"]
    /\ shutdown = [ctxDone |-> FALSE, pc |-> "waiting", res |-> "none"]
    /\ task = [c \in Cells |-> "none"]
    /\ stops = [c \in Cells |-> 0]

\* newCallResourceResponseStream(ctx), lines 756-761: the stream is open,
\* its channel empty, its context not done; nobody has called it yet.
\* closes counts the close(s.stream) executed, buffered the chunks that sit
\* in the channel; sends, sent and taken count the Send calls started, the
\* Send calls that returned nil and the chunks Recv took from the channel;
\* got is the Send call whose chunk Recv took last.
StreamIdle ==
    /\ stream = [closed |-> FALSE, chanClosed |-> FALSE, ctxDone |-> FALSE,
                 closes |-> 0, buffered |-> 0]
    /\ snd = [pc |-> "idle", res |-> "none", sends |-> 0, sent |-> 0]
    /\ rcv = [pc |-> "idle", res |-> "none", taken |-> 0, got |-> 0]

\* No dispatch call is under way.
ApiIdle ==
    api = [op |-> "none", id |-> "", pc |-> "idle", verr |-> << >>, found |-> Nil,
           p |-> Nil, out |-> [resp |-> "none", err |-> << >>], eff |-> << >>,
           resp |-> "none", err |-> << >>, http |-> << >>]

\* No resource call is under way: nothing to send, nothing written.
DrainIdle ==
    /\ plan = << >>
    /\ drain = [pc |-> "off", processedStreams |-> 0, res |-> "none"]
    /\ w = [header |-> {}, out |-> << >>]
    /\ call = [pc |-> "off", err |-> << >>, res |-> << >>]

\* No goroutine is in a listing accessor.
IterIdle ==
    [pc |-> "idle", op |-> "none", types |-> {}, id |-> "", todo |-> {},
     snap |-> [i \in Ids |-> Nil], res |-> << >>, hitDec |-> FALSE]

ListIdle == iter = IterIdle

\* The manager after Init(): the plugins directory exists and was either
\* empty, or held acme 1.0.0, which installPlugins then registered and started.
Init ==
    \E installed \in BOOLEAN :
      /\ plugins = [i \in Ids |-> IF installed /\ i = "acme" THEN 1 ELSE Nil]
      /\ writer = NoThread
      /\ ents = [c \in Cells |->
                   IF installed /\ c = 1
                   THEN [Desc("acme", "external", "1.0.0", <<"data", "plugins", "acme">>, TRUE)
                           EXCEPT !.proc = "running"]
                   ELSE Free]
      /\ disk = [d \in DiskDirs |->
                   IF d \in {<<"data">>, <<"data", "plugins">>} THEN "dir"
                   ELSE IF d = <<"data", "other">> THEN "1.0.0"
                   ELSE IF installed /\ d = <<"data", "plugins", "acme">> THEN "1.0.0"
                   ELSE "absent"]
      /\ th = [t \in Threads |-> Idle]
      /\ calls = 0
      /\ SupIdle /\ StreamIdle /\ ApiIdle /\ DrainIdle /\ ListIdle

\* ----------------------------------------------------------------- registry
\* Plugin, lines 229-231: p, ok := m.plugins[pluginID] under the read lock.
PluginRead(m, id) == m[id]

\* Mutants of PluginResult: the decommission check left out; the check made
\* on the process state instead of on the flag.
PluginResultUnchecked(E, p) == p
PluginResultChecksProcess(E, p) == IF p # Nil /\ E[p].proc = "stopped" THEN Nil ELSE p

\* Plugin, lines 233-237: nil for a decommissioned entry, else p (nil if absent).
PluginResult(E, p) == IF p # Nil /\ E[p].dec THEN Nil ELSE p

\* Mutant of RegisterOutcome: the "already registered" test left out.
RegisterOverwrites(m, id, c) == [err |-> "nil", m |-> [m EXCEPT ![id] = c]]

\* Register, lines 511-518, on the map: the error and the map afterwards.
RegisterOutcome(m, id, c) ==
    IF m[id] # Nil THEN [err |-> "AlreadyRegistered", m |-> m]
    ELSE [err |-> "nil", m |-> [m EXCEPT ![id] = c]]

\* unregister, line 662: delete(m.plugins, plugin.ID).
Delete(m, id) == [m EXCEPT ![id] = Nil]

\* Register(p), one critical section under the write lock.
Register(t) ==
    /\ UNCHANGED <<supVars, streamVars, apiVars, drainVars, listVars>>
    /\ \E d \in RegisterInputs :
         /\ CanStart(t) /\ CanLock(t) /\ FreeCells(ents) # {}
         /\ LET c   == NewCell(ents)
                out == RegisterOutcome(plugins, d.id, c)
            IN /\ plugins' = out.m
               /\ th' = [th EXCEPT ![t] =
                           Return([Call("Register", d.id, d.ver, << >>) EXCEPT
                                     !.eff = IF out.err = "nil" THEN <<"insert">> ELSE << >>],
                                  out.err)]
               /\ ents' = Sweep([ents EXCEPT ![c] = d], plugins', th')
         /\ calls' = calls + 1
         /\ UNCHANGED <<writer, disk>>

\* unregister(plugin) called on its own, one critical section.
unregister(t) ==
    /\ UNCHANGED <<supVars, streamVars, apiVars, drainVars, listVars>>
    /\ \E id \in Ids :
         /\ CanStart(t) /\ CanLock(t)
         /\ plugins' = Delete(plugins, id)
         /\ th' = [th EXCEPT ![t] =
                     Return([Call("unregister", id, "", << >>) EXCEPT !.eff = <<"delete">>], "nil")]
         /\ ents' = Sweep(ents, plugins', th')
         /\ calls' = calls + 1
         /\ UNCHANGED <<writer, disk>>

\* Plugin(id): the read under the read lock, then the decommission check.
Plugin(t) ==
    /\ UNCHANGED <<supVars, streamVars, apiVars, drainVars, listVars>>
    /\ CASE th[t].pc = "idle" ->
              \E id \in Ids :
                /\ CanStart(t) /\ CanRLock(t)
                /\ th' = [th EXCEPT ![t] =
                            [Call("Plugin", id, "", << >>) EXCEPT
                               !.pc = "pl_ck", !.found = PluginRead(plugins, id)]]
                /\ calls' = calls + 1
                /\ ents' = Sweep(ents, plugins, th')
                /\ UNCHANGED <<plugins, writer, disk>>
         [] th[t].pc = "pl_ck" ->
                /\ th' = [th EXCEPT ![t] =
                            Return([@ EXCEPT !.p = PluginResult(ents, th[t].found)], "nil")]
                /\ ents' = Sweep(ents, plugins, th')
                /\ UNCHANGED <<plugins, writer, disk, calls>>
         [] OTHER -> FALSE

\* The caller takes the result of the call; the goroutine is free again.
Finish(t) ==
    /\ UNCHANGED <<supVars, streamVars, apiVars, drainVars, listVars>>
    /\ th[t].pc = "done"
    /\ th' = [th EXCEPT ![t] = Idle]
    /\ ents' = Sweep(ents, plugins, th')
    /\ UNCHANGED <<plugins, writer, disk, calls>>

\* PluginV2.Decommission called by any holder of the object: the flag is set
\* and nothing ever clears it.
Decommission(c) ==
    /\ UNCHANGED <<supVars, streamVars, apiVars, drainVars, listVars>>
    /\ c \in Held(plugins, th)
    /\ ents[c].used /\ ~ents[c].dec
    /\ ents' = [ents EXCEPT ![c].dec = TRUE]
    /\ UNCHANGED <<plugins, writer, disk, th, calls>>

\* ----------------------------------------------------------------- dispatch
\* What a dispatch call answers when Plugin(id) is nil: QueryData an empty
\* response and a nil error (lines 203-205), CollectMetrics
\* ErrPluginNotRegistered (lines 450-452).
NotFoundResult(op) == IF op = "QueryData" THEN "empty" ELSE "ErrPluginNotRegistered"

\* QueryData / CollectMetrics: look the plugin up, then call it.  hitDec
\* records whether the object was decommissioned when its method was called.
Dispatch(t) ==
    /\ UNCHANGED <<supVars, streamVars, apiVars, drainVars, listVars>>
    /\ CASE th[t].pc = "idle" ->
              \E id \in Ids, op \in {"QueryData", "CollectMetrics"} :
                /\ CanStart(t) /\ CanRLock(t)
                /\ th' = [th EXCEPT ![t] =
                            [Call(op, id, "", << >>) EXCEPT
                               !.pc = "d_ck", !.found = PluginRead(plugins, id)]]
                /\ calls' = calls + 1
                /\ ents' = Sweep(ents, plugins, th')
                /\ UNCHANGED <<plugins, writer, disk>>
         [] th[t].pc = "d_ck" ->
              LET p == PluginResult(ents, th[t].found) IN
                /\ th' = [th EXCEPT ![t] =
                            IF p = Nil THEN Return(@, NotFoundResult(th[t].op))
                            ELSE [@ EXCEPT !.pc = "d_call", !.p = p, !.found = Nil]]
                /\ ents' = Sweep(ents, plugins, th')
                /\ UNCHANGED <<plugins, writer, disk, calls>>
         [] th[t].pc = "d_call" ->
              \E ok \in BOOLEAN :
                /\ th' = [th EXCEPT ![t] =
                            Return([@ EXCEPT !.eff = Append(@, "invoke"),
                                             !.hitDec = ents[th[t].p].dec],
                                   IF ok THEN "response" ELSE "ErrPlugin")]
                /\ ents' = Sweep(ents, plugins, th')
                /\ UNCHANGED <<plugins, writer, disk, calls>>
         [] OTHER -> FALSE

\* --------------------------------------------------------------- file system
Exists(D, path) == path \in DOMAIN D /\ D[path] # "absent"

\* pluginInstaller.Uninstall(dir): the directory and all below it are removed.
RemoveAll(D, dir) ==
    [d \in DOMAIN D |-> IF IsPrefix(Clean(dir), d) THEN "absent" ELSE D[d]]

\* pluginInstaller.Install(id, version, PluginsPath): the archive is unpacked
\* into PluginsPath/id, the directories above it being created as needed.
Unpack(D, id, ver) ==
    [d \in DOMAIN D |->
       IF d = Append(PluginsPath, id) THEN ver
       ELSE IF IsPrefix(d, PluginsPath) /\ D[d] = "absent" THEN "dir" ELSE D[d]]

\* ------------------------------------------------------ unregister and stop
\* Mutant of UninstallCheck: the IsExternalPlugin test left out.
UninstallCheckNoClass(E, plugin) ==
    IF plugin = Nil THEN "ErrPluginNotInstalled"
    ELSE IF OutsideOfPluginDir(E[plugin].dir) THEN "ErrUninstallOutsideOfPluginDir"
    ELSE "nil"

\* Uninstall, lines 628-641: the error of the checks made on the looked-up
\* plugin, "nil" when it passes them all.
UninstallCheck(E, plugin) ==
    IF plugin = Nil THEN "ErrPluginNotInstalled"
    ELSE IF ~IsExternalPlugin(E[plugin]) THEN "ErrUninstallCorePlugin"
    ELSE IF OutsideOfPluginDir(E[plugin].dir) THEN "ErrUninstallOutsideOfPluginDir"
    ELSE "nil"

\* IsRegistered, lines 565-572, on the object Plugin(id) gave.
IsRegistered(E, p) == p # Nil /\ ~E[p].dec

\* Uninstall returns err: to its caller, or into Install, which goes on to
\* the download when err is nil (lines 608-614).
UninstallReturn(rec, err) ==
    IF rec.op = "Uninstall" \/ err # "nil" THEN Return(rec, err)
    ELSE [rec EXCEPT !.pc = "in_dl", !.found = Nil, !.plugin = Nil]

\* UnregisterAndStop returns err: to its caller, or into Uninstall, which
\* goes on to unregister when err is nil (lines 644-650).
UASReturn(rec, err) ==
    IF rec.op = "UnregisterAndStop" THEN Return(rec, err)
    ELSE IF err # "nil" THEN UninstallReturn(rec, err)
    ELSE [rec EXCEPT !.pc = "un_unreg", !.found = Nil, !.p = Nil]

\* UnregisterAndStop(id), lines 536-559.  The write lock is taken first and
\* held to the return (defer Unlock); Plugin(id) then takes the read lock of
\* the same mutex.
UnregisterAndStop(t) ==
    /\ UNCHANGED <<supVars, streamVars, apiVars, drainVars, listVars>>
    /\ CASE th[t].pc = "idle" ->
              \E id \in Ids :
                /\ CanStart(t) /\ CanLock(t)
                /\ writer' = t
                /\ th' = [th EXCEPT ![t] =
                            [Call("UnregisterAndStop", id, "", << >>) EXCEPT !.pc = "uas_rd"]]
                /\ calls' = calls + 1
                /\ ents' = Sweep(ents, plugins, th')
                /\ UNCHANGED <<plugins, disk>>
         [] th[t].pc = "uas_lock" ->
                /\ CanLock(t)
                /\ writer' = t
                /\ th' = [th EXCEPT ![t].pc = "uas_rd"]
                /\ UNCHANGED <<plugins, ents, disk, calls>>
         [] th[t].pc = "uas_rd" ->
                /\ CanRLock(t)
                /\ th' = [th EXCEPT ![t].pc = "uas_ck",
                                    ![t].found = PluginRead(plugins, th[t].id)]
                /\ UNCHANGED <<plugins, writer, ents, disk, calls>>
         [] th[t].pc = "uas_ck" ->
              LET p == PluginResult(ents, th[t].found) IN
                /\ th' = [th EXCEPT ![t] =
                            IF p = Nil THEN UASReturn(@, "ErrNotRegistered")
                            ELSE [@ EXCEPT !.pc = "uas_dec", !.p = p, !.found = Nil]]
                /\ writer' = IF p = Nil THEN NoThread ELSE writer
                /\ ents' = Sweep(ents, plugins, th')
                /\ UNCHANGED <<plugins, disk, calls>>
         [] th[t].pc = "uas_dec" ->
              \E ok \in BOOLEAN :
                /\ th' = [th EXCEPT ![t] =
                            IF ok THEN [@ EXCEPT !.pc = "uas_stop", !.eff = Append(@, "decommission")]
                            ELSE UASReturn(@, "ErrDecommission")]
                /\ writer' = IF ok THEN writer ELSE NoThread
                /\ ents' = Sweep(IF ok THEN [ents EXCEPT ![th[t].p].dec = TRUE] ELSE ents,
                                 plugins, th')
                /\ UNCHANGED <<plugins, disk, calls>>
         [] th[t].pc = "uas_stop" ->
              \E ok \in BOOLEAN :
                /\ th' = [th EXCEPT ![t] =
                            IF ok THEN [@ EXCEPT !.pc = "uas_del", !.eff = Append(@, "stop")]
                            ELSE UASReturn(@, "ErrStop")]
                /\ writer' = IF ok THEN writer ELSE NoThread
                /\ ents' = Sweep(IF ok THEN [ents EXCEPT ![th[t].p].proc = "stopped"] ELSE ents,
                                 plugins, th')
                /\ UNCHANGED <<plugins, disk, calls>>
         [] th[t].pc = "uas_del" ->
                /\ plugins' = Delete(plugins, th[t].id)
                /\ th' = [th EXCEPT ![t] = UASReturn([@ EXCEPT !.eff = Append(@, "delete")], "nil")]
                /\ writer' = NoThread
                /\ ents' = Sweep(ents, plugins', th')
                /\ UNCHANGED <<disk, calls>>
         [] OTHER -> FALSE

\* Uninstall(id), lines 627-656.
Uninstall(t) ==
    /\ UNCHANGED <<supVars, streamVars, apiVars, drainVars, listVars>>
    /\ CASE th[t].pc = "idle" ->
              \E id \in Ids :
                /\ CanStart(t) /\ CanRLock(t)
                /\ th' = [th EXCEPT ![t] =
                            [Call("Uninstall", id, "", << >>) EXCEPT
                               !.pc = "un_ck", !.found = PluginRead(plugins, id)]]
                /\ calls' = calls + 1
                /\ ents' = Sweep(ents, plugins, th')
                /\ UNCHANGED <<plugins, writer, disk>>
         [] th[t].pc = "un_rd" ->
                /\ CanRLock(t)
                /\ th' = [th EXCEPT ![t].pc = "un_ck",
                                    ![t].found = PluginRead(plugins, th[t].id)]
                /\ UNCHANGED <<plugins, writer, ents, disk, calls>>
         [] th[t].pc = "un_ck" ->
              LET plugin == PluginResult(ents, th[t].found)
                  err    == UninstallCheck(ents, plugin)
                  obj    == IF plugin = Nil THEN Free ELSE ents[plugin]
              IN /\ th' = [th EXCEPT ![t] =
                             IF err # "nil" THEN UninstallReturn([@ EXCEPT !.obj = obj], err)
                             ELSE [@ EXCEPT !.pc = "un_isreg", !.plugin = plugin,
                                            !.obj = obj, !.found = Nil]]
                 /\ ents' = Sweep(ents, plugins, th')
                 /\ UNCHANGED <<plugins, writer, disk, calls>>
         [] th[t].pc = "un_isreg" ->
              LET p == PluginResult(ents, PluginRead(plugins, th[t].id)) IN
                /\ CanRLock(t)
                /\ th' = [th EXCEPT ![t].pc =
                            IF IsRegistered(ents, p) THEN "uas_lock" ELSE "un_unreg"]
                /\ UNCHANGED <<plugins, writer, ents, disk, calls>>
         [] th[t].pc = "un_unreg" ->
                /\ CanLock(t)
                /\ plugins' = Delete(plugins, ents[th[t].plugin].id)
                /\ th' = [th EXCEPT ![t].pc = "un_rm", ![t].eff = Append(@, "delete")]
                /\ ents' = Sweep(ents, plugins', th')
                /\ UNCHANGED <<writer, disk, calls>>
         [] th[t].pc = "un_rm" ->
              \E ok \in BOOLEAN :
                /\ disk' = IF ok THEN RemoveAll(disk, ents[th[t].plugin].dir) ELSE disk
                /\ th' = [th EXCEPT ![t] =
                            IF ok THEN UninstallReturn([@ EXCEPT !.eff = Append(@, "rm")], "nil")
                            ELSE UninstallReturn(@, "ErrInstaller")]
                /\ ents' = Sweep(ents, plugins, th')
                /\ UNCHANGED <<plugins, writer, calls>>
         [] OTHER -> FALSE

\* ----------------------------------------------------------- installPlugins
\* The order in which PluginFinder.Find walks the plugin directories.
DirOrder == << <<"data", "plugins", "acme">>, <<"data", "plugins", "testdata">> >>

\* PluginFinder.Find(path): the plugin directories directly under path.
Find(D, path) ==
    SelectSeq(DirOrder, LAMBDA d : /\ Len(d) = Len(path) + 1
                                   /\ IsPrefix(path, d)
                                   /\ D[d] \in Versions)

\* PluginLoader.LoadAll: one new PluginV2 per plugin directory, its id the
\* directory's name, its version the one on disk.  The heap and the list of
\* the new objects.
RECURSIVE LoadAll(_, _, _)
LoadAll(E, D, dirs) ==
    IF dirs = << >> THEN [E |-> E, list |-> << >>]
    ELSE LET d    == Head(dirs)
             c    == NewCell(E)
             rest == LoadAll([E EXCEPT ![c] = Desc(d[Len(d)], "external", D[d], d, TRUE)],
                             D, Tail(dirs))
         IN  [E |-> rest.E, list |-> <<c>> \o rest.list]

\* filterOutDuplicates, lines 173-199: seen is pluginsByID.
RECURSIVE FilterFrom(_, _, _, _)
FilterFrom(E, m, list, seen) ==
    IF list = << >> THEN << >>
    ELSE LET c  == Head(list)
             id == E[c].id
         IN  IF id \in seen THEN FilterFrom(E, m, Tail(list), seen)
             ELSE IF PluginResult(E, PluginRead(m, id)) # Nil
                  THEN FilterFrom(E, m, Tail(list), seen \cup {id})
             ELSE IF id \in corePluginJSONPaths
                  THEN FilterFrom(E, m, Tail(list), seen \cup {id})
             ELSE <<c>> \o FilterFrom(E, m, Tail(list), seen \cup {id})

\* Mutant of filterOutDuplicates: pluginsByID is not consulted.
FilterNoDedup(E, m, list) ==
    SelectSeq(list, LAMBDA c : /\ PluginResult(E, PluginRead(m, E[c].id)) = Nil
                               /\ E[c].id \notin corePluginJSONPaths)

filterOutDuplicates(E, m, list) == FilterFrom(E, m, list, {})

\* The ids of a list of plugins.
IdsOf(E, list) == [k \in 1..Len(list) |-> E[list[k]].id]

\* Mutant of DirMissing: a missing directory passes for an empty one.
DirNeverMissing(D, path) == FALSE

\* installPlugins, lines 139-146: the directory does not exist.
DirMissing(D, path) == ~Exists(D, path)

\* installPlugins(path), lines 138-170, on its own or as the last step of
\* Install.  Both return its error unchanged.
installPlugins(t) ==
    /\ UNCHANGED <<supVars, streamVars, apiVars, drainVars, listVars>>
    /\ CASE th[t].pc \in {"idle", "ip_start"} ->
              \E path \in InstallRoots, ok \in BOOLEAN :
                LET first == th[t].pc # "ip_start"
                    rec   == IF first THEN Call("installPlugins", "", "", path) ELSE th[t]
                    dirs  == Find(disk, rec.path)
                    ld    == LoadAll(ents, disk, dirs)
                IN /\ first => CanStart(t)
                   /\ ~first => path = th[t].path
                   /\ calls' = IF first THEN calls + 1 ELSE calls
                   /\ IF DirMissing(disk, rec.path)
                      THEN /\ ok
                           /\ th' = [th EXCEPT ![t] = Return(rec, "ErrNoPluginsDir")]
                           /\ ents' = Sweep(ents, plugins, th')
                      ELSE IF ~ok
                      THEN /\ th' = [th EXCEPT ![t] = Return(rec, "ErrLoad")]
                           /\ ents' = Sweep(ents, plugins, th')
                      ELSE /\ Cardinality(FreeCells(ents)) >= Len(dirs)
                           /\ th' = [th EXCEPT ![t] =
                                       [rec EXCEPT !.pc = "ip_filter", !.list = ld.list,
                                                   !.loaded = IdsOf(ld.E, ld.list),
                                                   !.eff = Append(@, "load")]]
                           /\ ents' = Sweep(ld.E, plugins, th')
                   /\ UNCHANGED <<plugins, writer, disk>>
         [] th[t].pc = "ip_filter" ->
                /\ CanRLock(t)
                /\ th' = [th EXCEPT ![t].pc = "ip_loop",
                                    ![t].list = filterOutDuplicates(ents, plugins, th[t].list)]
                /\ ents' = Sweep(ents, plugins, th')
                /\ UNCHANGED <<plugins, writer, disk, calls>>
         [] th[t].pc = "ip_loop" ->
              IF th[t].list = << >>
              THEN /\ th' = [th EXCEPT ![t] = Return(@, "nil")]
                   /\ ents' = Sweep(ents, plugins, th')
                   /\ UNCHANGED <<plugins, writer, disk, calls>>
              ELSE \E ok \in BOOLEAN :
                     LET c   == Head(th[t].list)
                         out == RegisterOutcome(plugins, ents[c].id, c)
                     IN /\ ok => CanLock(t)
                        /\ plugins' = IF ok THEN out.m ELSE plugins
                        /\ th' = [th EXCEPT ![t] =
                                    IF ~ok THEN Return(@, "ErrInitialize")
                                    ELSE IF out.err # "nil" THEN Return(@, out.err)
                                    ELSE [@ EXCEPT !.pc = "ip_isreg", !.eff = Append(@, "insert")]]
                        /\ ents' = Sweep(ents, plugins', th')
                        /\ UNCHANGED <<writer, disk, calls>>
         [] th[t].pc = "ip_isreg" ->
              \E ok \in BOOLEAN :
                LET c   == Head(th[t].list)
                    p   == PluginResult(ents, PluginRead(plugins, ents[c].id))
                    reg == IsRegistered(ents, p)
                    run == reg /\ ents[c].backend /\ ok
                IN /\ CanRLock(t)
                   /\ (~reg \/ ~ents[c].backend) => ok
                   /\ th' = [th EXCEPT ![t] =
                               IF ~reg THEN Return(@, "ErrNotRegistered")
                               ELSE [@ EXCEPT !.pc = "ip_loop", !.list = Tail(@),
                                              !.eff = IF run THEN Append(@, "start")
                                                      ELSE IF reg /\ ents[c].backend
                                                      THEN Append(@, "startfail")
                                                      ELSE @]]
                   /\ ents' = Sweep(IF run THEN [ents EXCEPT ![c].proc = "running"] ELSE ents,
                                    plugins, th')
                   /\ UNCHANGED <<plugins, writer, disk, calls>>
         [] OTHER -> FALSE

\* ------------------------------------------------------------------ Install
\* Mutant of InstallCheck: the version comparison left out.
InstallCheckNoVersion(E, plugin, version) ==
    IF ~IsExternalPlugin(E[plugin]) THEN "ErrInstallCorePlugin" ELSE "nil"

\* Install, lines 588-597: the error of the checks made on a plugin that is
\* already present, "nil" when the installed copy is to be replaced.
InstallCheck(E, plugin, version) ==
    IF ~IsExternalPlugin(E[plugin]) THEN "ErrInstallCorePlugin"
    ELSE IF E[plugin].ver = version THEN "DuplicatePluginError"
    ELSE "nil"

\* Install(id, version), lines 583-625.
Install(t) ==
    /\ UNCHANGED <<supVars, streamVars, apiVars, drainVars, listVars>>
    /\ CASE th[t].pc = "idle" ->
              \E id \in Ids, version \in Versions :
                /\ CanStart(t) /\ CanRLock(t)
                /\ th' = [th EXCEPT ![t] =
                            [Call("Install", id, version, PluginsPath) EXCEPT
                               !.pc = "in_ck", !.found = PluginRead(plugins, id)]]
                /\ calls' = calls + 1
                /\ ents' = Sweep(ents, plugins, th')
                /\ UNCHANGED <<plugins, writer, disk>>
         [] th[t].pc = "in_ck" ->
              LET plugin == PluginResult(ents, th[t].found)
                  err    == IF plugin = Nil THEN "nil" ELSE InstallCheck(ents, plugin, th[t].ver)
                  obj    == IF plugin = Nil THEN Free ELSE ents[plugin]
              IN /\ th' = [th EXCEPT ![t] =
                             IF err # "nil"
                             THEN Return([@ EXCEPT !.obj = obj,
                                                   !.dir = IF err = "DuplicatePluginError"
                                                           THEN ents[plugin].dir ELSE << >>],
                                         err)
                             ELSE [@ EXCEPT !.pc = IF plugin = Nil THEN "in_dl" ELSE "in_upd",
                                            !.plugin = plugin, !.obj = obj, !.found = Nil]]
                 /\ ents' = Sweep(ents, plugins, th')
                 /\ UNCHANGED <<plugins, writer, disk, calls>>
         [] th[t].pc = "in_upd" ->
              \E ok \in BOOLEAN :
                /\ th' = [th EXCEPT ![t] =
                            IF ok THEN [@ EXCEPT !.pc = "un_rd", !.eff = Append(@, "updateinfo")]
                            ELSE Return(@, "ErrUpdateInfo")]
                /\ ents' = Sweep(ents, plugins, th')
                /\ UNCHANGED <<plugins, writer, disk, calls>>
         [] th[t].pc = "in_dl" ->
              \E ok \in BOOLEAN :
                /\ disk' = IF ok THEN Unpack(disk, th[t].id, th[t].ver) ELSE disk
                /\ th' = [th EXCEPT ![t] =
                            IF ok THEN [@ EXCEPT !.pc = "ip_start", !.eff = Append(@, "download")]
                            ELSE Return(@, "ErrInstaller")]
                /\ ents' = Sweep(ents, plugins, th')
                /\ UNCHANGED <<plugins, writer, calls>>
         [] OTHER -> FALSE

Next ==
    \/ \E t \in Threads : Register(t)
    \/ \E t \in Threads : unregister(t)
    \/ \E t \in Threads : Plugin(t)
    \/ \E t \in Threads : Dispatch(t)
    \/ \E t \in Threads : UnregisterAndStop(t)
    \/ \E t \in Threads : Uninstall(t)
    \/ \E t \in Threads : Install(t)
    \/ \E t \in Threads : installPlugins(t)
    \/ \E t \in Threads : Finish(t)
    \/ \E c \in Cells : Decommission(c)

Spec == Init /\ [][Next]_vars

\* One caller, its calls one after the other, and nobody else touching the
\* plugins: the setting of the statements about calls made "in succession".
SeqNext ==
    \/ Register("g1")
    \/ unregister("g1")
    \/ Plugin("g1")
    \/ Dispatch("g1")
    \/ UnregisterAndStop("g1")
    \/ Uninstall("g1")
    \/ Install("g1")
    \/ installPlugins("g1")
    \/ Finish("g1")

SeqSpec == Init /\ [][SeqNext]_vars

\* ------------------------------------------------ installPlugins, any batch
\* installPlugins("g1") has loaded a batch and is about to filter it.  The
\* batch is any list LoadAll can return: plugins 1..k, each under any id, so
\* also several under one id.  The registry is empty or holds one plugin,
\* decommissioned or not, in the last cell.
FilterInit ==
    \E k \in 0..(MaxEnts - 1), ids \in [Cells -> Ids],
       reg \in BOOLEAN, dec \in BOOLEAN, backend \in BOOLEAN :
      LET last == MaxEnts
          list == [c \in 1..k |-> c]
          dirOf(c) == Append(PluginsPath, ids[c])
      IN /\ ~reg => ~dec /\ ids[last] = "acme"
         /\ \A c \in Cells : c > k /\ c # last => ids[c] = "acme"
         /\ plugins = [i \in Ids |-> IF reg /\ i = ids[last] THEN last ELSE Nil]
         /\ writer = NoThread
         /\ ents = [c \in Cells |->
                      IF c <= k THEN Desc(ids[c], "external", "1.0.0", dirOf(c), backend)
                      ELSE IF reg /\ c = last
                      THEN [Desc(ids[c], "external", "1.0.0", dirOf(c), TRUE)
                              EXCEPT !.proc = "running", !.dec = dec]
                      ELSE Free]
         /\ disk = [d \in DiskDirs |->
                      IF d \in {<<"data">>, <<"data", "plugins">>} THEN "dir"
                      ELSE IF \E c \in 1..k : d = dirOf(c) THEN "1.0.0"
                      ELSE "absent"]
         /\ th = [t \in Threads |->
                    IF t = "g1"
                    THEN [Call("installPlugins", "", "", PluginsPath) EXCEPT
                            !.pc = "ip_filter", !.list = list,
                            !.loaded = IdsOf(ents, list), !.eff = <<"load">>]
                    ELSE Idle]
         /\ calls = MaxCalls
         /\ SupIdle /\ StreamIdle /\ ApiIdle /\ DrainIdle /\ ListIdle

FilterNext ==
    \/ \E t \in Threads : installPlugins(t)
    \/ \E t \in Threads : Finish(t)

FilterSpec == FilterInit /\ [][FilterNext]_vars

\* --------------------------------------------------------------- supervisor
\* PluginV2.Exited: no process of the plugin is running.
Exited(o) == o.proc # "running"

\* case <-ctx.Done(), line 714.  In the manager the context of the
\* supervision goroutines is the context.Background() that installPlugins
\* gives registerAndStart (line 164), which is never done; a caller of
\* restartKilledProcess can give it one that is cancelled or times out.
LoopCtxDone == loopCtx \in {"Canceled", "DeadlineExceeded"}

\* Mutant of LoopResult: the error of the context is returned as it is.
LoopResultRaw(err) == err

\* restartKilledProcess, lines 715-718: nil when the context's error is
\* context.Canceled, the error otherwise.
LoopResult(err) == IF err = "Canceled" THEN "nil" ELSE err

\* The plugin sits in the registry under its id.
InRegistry(c) == ents[c].used /\ plugins[ents[c].id] = c

\* start(ctx, p), lines 668-676, with startPluginAndRestartKilledProcesses,
\* lines 696-708: nothing for a plugin without a managed backend; otherwise
\* Start, and only when Start succeeds the goroutine of restartKilledProcess.
\* A failed Start is logged.  loop[c] is "off" when start has returned
\* without the goroutine.
start(c) ==
    /\ InRegistry(c) /\ loop[c] = "none"
    /\ \E ok \in BOOLEAN :
         /\ ~ents[c].backend => ok
         /\ ents' = IF ents[c].backend /\ ok THEN [ents EXCEPT ![c].proc = "running"]
                    ELSE ents
         /\ loop' = [loop EXCEPT ![c] = IF ents[c].backend /\ ok THEN "wait" ELSE "off"]
    /\ UNCHANGED <<plugins, writer, disk, th, calls, loopCtx, loopRes, shutdown, task, stops,
                   streamVars, apiVars, drainVars, listVars>>

\* Mutant of AfterStart: a failed restart ends the goroutine.
AfterStartGivesUp(ok) == IF ok THEN "wait" ELSE "ended"

\* restartKilledProcess, lines 729-734: after Start, failed (continue) or
\* not, the goroutine is back at the select.
AfterStart(ok) == "wait"

\* restartKilledProcess(ctx, p), lines 710-738, one round of the for loop in
\* three steps: the select with the IsDecommissioned test, the Exited test,
\* and Start.  The select takes the Done case when the context is done, or
\* the ticker's case: the ticker fires again and again, and with both cases
\* ready the select takes either.
restartKilledProcess(c) ==
    /\ UNCHANGED <<plugins, writer, disk, th, calls, loopCtx, shutdown, task, stops,
                   streamVars, apiVars, drainVars, listVars>>
    /\ CASE loop[c] = "wait" ->
              \E done \in BOOLEAN :
                /\ done => LoopCtxDone
                /\ loop' = [loop EXCEPT ![c] =
                              IF done \/ ents[c].dec THEN "ended" ELSE "ck_exit"]
                /\ loopRes' = [loopRes EXCEPT ![c] =
                                 IF done THEN LoopResult(loopCtx)
                                 ELSE IF ents[c].dec THEN "nil" ELSE @]
                /\ UNCHANGED ents
         [] loop[c] = "ck_exit" ->
              /\ loop' = [loop EXCEPT ![c] = IF Exited(ents[c]) THEN "start" ELSE "wait"]
              /\ UNCHANGED <<ents, loopRes>>
         [] loop[c] = "start" ->
              \E ok \in BOOLEAN :
                /\ ents' = IF ok THEN [ents EXCEPT ![c].proc = "running"] ELSE ents
                /\ loop' = [loop EXCEPT ![c] = AfterStart(ok)]
                /\ UNCHANGED loopRes
         [] OTHER -> FALSE

\* The process of the plugin dies.
Exit(c) ==
    /\ ents[c].used /\ ents[c].proc = "running"
    /\ ents' = [ents EXCEPT ![c].proc = "exited"]
    /\ UNCHANGED <<plugins, writer, disk, th, calls, supVars, streamVars, apiVars, drainVars, listVars>>

\* The context given to Run is cancelled.
Cancel ==
    /\ ~shutdown.ctxDone
    /\ shutdown' = [shutdown EXCEPT !.ctxDone = TRUE]
    /\ UNCHANGED <<plugins, writer, ents, disk, th, calls, loop, loopCtx, loopRes, task, stops, streamVars, apiVars, drainVars, listVars>>

\* Run(ctx), lines 107-111: <-ctx.Done(), then m.stop(ctx).
Run ==
    /\ shutdown.pc = "waiting" /\ shutdown.ctxDone
    /\ shutdown' = [shutdown EXCEPT !.pc = "stop"]
    /\ UNCHANGED <<plugins, writer, ents, disk, th, calls, loop, loopCtx, loopRes, task, stops, streamVars, apiVars, drainVars, listVars>>

\* Mutant of WaitGroupDone: stop does not wait.
WaitGroupSkipped(T) == TRUE

\* wg.Wait(), line 693: every goroutine stop started has called wg.Done.
WaitGroupDone(T) == \A c \in Cells : T[c] # "todo"

\* stop(ctx), lines 678-694: under the read lock, one goroutine for every
\* plugin of m.plugins, then wg.Wait() and the return (to Run, which returns
\* ctx.Err()).
stop ==
    /\ UNCHANGED <<plugins, writer, ents, disk, th, calls, loop, loopCtx, loopRes, stops, streamVars, apiVars, drainVars, listVars>>
    /\ CASE shutdown.pc = "stop" ->
              /\ writer = NoThread
              /\ task' = [c \in Cells |-> IF InRegistry(c) THEN "todo" ELSE task[c]]
              /\ shutdown' = [shutdown EXCEPT !.pc = "wait"]
         [] shutdown.pc = "wait" ->
              /\ WaitGroupDone(task)
              /\ shutdown' = [shutdown EXCEPT !.pc = "returned", !.res = "Canceled"]
              /\ UNCHANGED task
         [] OTHER -> FALSE

\* The goroutine stop started for p, lines 684-690: p.Stop(ctx), its error
\* logged, then wg.Done.
StopTask(c) ==
    /\ task[c] = "todo"
    /\ \E ok \in BOOLEAN :
         /\ ents' = IF ok THEN [ents EXCEPT ![c].proc = "stopped"] ELSE ents
         /\ task' = [task EXCEPT ![c] = IF ok THEN "stopped" ELSE "failed"]
    /\ stops' = [stops EXCEPT ![c] = @ + 1]
    /\ UNCHANGED <<plugins, writer, disk, th, calls, loop, loopCtx, loopRes, shutdown, streamVars, apiVars, drainVars, listVars>>

\* The manager when installPlugins has registered its plugins and has not
\* yet started any: acme and testdata, either of them in the registry or
\* not, with a managed backend or without.
SupInit ==
    \E present \in SUBSET Ids, bk \in [Ids -> BOOLEAN] :
      LET cell == [i \in Ids |-> IF i = "acme" THEN 1 ELSE 2] IN
        /\ present # {}
        /\ \A i \in Ids \ present : bk[i]
        /\ plugins = [i \in Ids |-> IF i \in present THEN cell[i] ELSE Nil]
        /\ writer = NoThread
        /\ ents = [c \in Cells |->
                     IF \E i \in present : cell[i] = c
                     THEN LET i == CHOOSE i \in present : cell[i] = c
                          IN  Desc(i, "external", "1.0.0", Append(PluginsPath, i), bk[i])
                     ELSE Free]
        /\ disk = [d \in DiskDirs |->
                     IF d \in {<<"data">>, <<"data", "plugins">>} THEN "dir"
                     ELSE IF \E i \in present : d = Append(PluginsPath, i) THEN "1.0.0"
                     ELSE "absent"]
        /\ th = [t \in Threads |-> Idle]
        /\ calls = 0
        /\ SupIdle /\ StreamIdle /\ ApiIdle /\ DrainIdle /\ ListIdle

SupNext ==
    \/ \E c \in Cells : start(c)
    \/ \E c \in Cells : restartKilledProcess(c)
    \/ \E c \in Cells : Exit(c)
    \/ \E c \in Cells : Decommission(c)
    \/ \E c \in Cells : StopTask(c)
    \/ Cancel
    \/ Run
    \/ stop

SupSpec == SupInit /\ [][SupNext]_vars

\* The ticker of every supervision goroutine keeps firing and the goroutine
\* keeps being scheduled.
SupFairSpec == SupSpec /\ \A c \in Cells : WF_vars(restartKilledProcess(c))

\* The context a caller has given restartKilledProcess is cancelled, or its
\* deadline passes.
CancelLoop ==
    /\ loopCtx = "live"
    /\ loopCtx' \in {"Canceled", "DeadlineExceeded"}
    /\ UNCHANGED <<plugins, writer, ents, disk, th, calls, loop, loopRes, shutdown, task, stops,
                   streamVars, apiVars, drainVars, listVars>>

\* acme and testdata are registered, each with a managed backend, none is
\* started, and the context start will hand to restartKilledProcess is one
\* that can be done.
LoopInit ==
    /\ plugins = [i \in Ids |-> IF i = "acme" THEN 1 ELSE 2]
    /\ writer = NoThread
    /\ ents = [c \in Cells |->
                 IF c = 1 THEN Desc("acme", "external", "1.0.0", Append(PluginsPath, "acme"), TRUE)
                 ELSE IF c = 2
                 THEN Desc("testdata", "external", "1.0.0", Append(PluginsPath, "testdata"), TRUE)
                 ELSE Free]
    /\ disk = [d \in DiskDirs |->
                 IF d \in {<<"data">>, <<"data", "plugins">>} THEN "dir"
                 ELSE IF \E i \in Ids : d = Append(PluginsPath, i) THEN "1.0.0"
                 ELSE "absent"]
    /\ th = [t \in Threads |-> Idle]
    /\ calls = 0
    /\ loop = [c \in Cells |-> "none"]
    /\ loopCtx = "live"
    /\ loopRes = [c \in Cells |-> "none"]
    /\ shutdown = [ctxDone |-> FALSE, pc |-> "waiting", res |-> "none"]
    /\ task = [c \in Cells |-> "none"]
    /\ stops = [c \in Cells |-> 0]
    /\ StreamIdle /\ ApiIdle /\ DrainIdle /\ ListIdle

LoopNext ==
    \/ \E c \in Cells : start(c)
    \/ \E c \in Cells : restartKilledProcess(c)
    \/ \E c \in Cells : Exit(c)
    \/ \E c \in Cells : Decommission(c)
    \/ CancelLoop

LoopSpec == LoopInit /\ [][LoopNext]_vars

\* Every supervision goroutine keeps being scheduled and its ticker keeps
\* firing; the select of Go picks at random among the cases that are ready,
\* so the Done case of a context that is done is not passed over for ever.
LoopFairSpec ==
    LoopSpec /\ \A c \in Cells :
                 /\ WF_vars(restartKilledProcess(c))
                 /\ SF_vars(restartKilledProcess(c) /\ loop'[c] = "ended")

\* ---------------------------------------------------------- resource stream
\* The producer goroutine (snd) calls Send and Close; the drain goroutine
\* (rcv) calls Recv and, after a failed Recv, Close.  A goroutine that found
\* no case of its select ready is parked ("send_park", "recv_park") and is
\* woken by the first of: the other side of the channel, the cancellation
\* of the context, the closing of the channel.

\* Mutant of SendReady: the channel has room for a chunk.
SendReadyBuffered(s, r) == TRUE

\* s.stream <- res on the channel of line 759, make(chan ...) without a
\* capacity: the send can proceed only with a receiver parked in Recv.
SendReady(s, r) == r.pc = "recv_park"

\* Mutant of CtxDone: the select does not look at the context.
CtxIgnored(s) == FALSE

\* case <-s.ctx.Done(), lines 769 and 778.
CtxDone(s) == s.ctxDone

\* Mutant of CloseRefused: Close does not test s.closed.
CloseNeverRefused(s) == FALSE

\* Close, line 789: if s.closed.
CloseRefused(s) == s.closed

\* The Send calls the producer makes: the chunks of the plugin's plan in a
\* resource call, any number up to the bound on a stream of its own.
SendLimit == IF drain.pc = "off" THEN MaxSends ELSE Len(plan)

\* Send(res), lines 763-774.  After the test of s.closed the select runs in
\* one step: it returns "cancelled", or hands the chunk to the parked
\* receiver (or to the channel's buffer, had it one), or panics on a closed
\* channel, or parks the goroutine.
Send ==
    /\ UNCHANGED <<plugins, writer, ents, disk, th, calls, supVars, apiVars, drainVars, listVars>>
    /\ CASE snd.pc = "idle" ->
              /\ snd.sends < SendLimit
              /\ drain.pc # "off" => call.pc = "plugin"
              /\ snd' = IF stream.closed
                        THEN [snd EXCEPT !.res = "ErrSendClosed", !.sends = @ + 1]
                        ELSE [snd EXCEPT !.pc = "send_sel", !.res = "none", !.sends = @ + 1]
              /\ UNCHANGED <<stream, rcv>>
         [] snd.pc = "send_sel" ->
              \E cancel \in BOOLEAN :
                IF cancel
                THEN /\ CtxDone(stream)
                     /\ snd' = [snd EXCEPT !.pc = "idle", !.res = "cancelled"]
                     /\ UNCHANGED <<stream, rcv>>
                ELSE IF stream.chanClosed
                THEN /\ snd' = [snd EXCEPT !.pc = "panic", !.res = "panic"]
                     /\ UNCHANGED <<stream, rcv>>
                ELSE IF SendReady(stream, rcv)
                THEN /\ snd' = [snd EXCEPT !.pc = "send_ok"]
                     /\ IF rcv.pc = "recv_park"
                        THEN /\ rcv' = [rcv EXCEPT !.pc = "recv_got", !.taken = @ + 1,
                                                        !.got = snd.sends]
                             /\ UNCHANGED stream
                        ELSE /\ stream' = [stream EXCEPT !.buffered = @ + 1]
                             /\ UNCHANGED rcv
                ELSE /\ ~CtxDone(stream)
                     /\ snd' = [snd EXCEPT !.pc = "send_park"]
                     /\ UNCHANGED <<stream, rcv>>
         [] snd.pc = "send_ok" ->
              /\ snd' = [snd EXCEPT !.pc = "idle", !.res = "nil", !.sent = @ + 1]
              /\ UNCHANGED <<stream, rcv>>
         [] snd.pc = "send_cancel" ->
              /\ snd' = [snd EXCEPT !.pc = "idle", !.res = "cancelled"]
              /\ UNCHANGED <<stream, rcv>>
         [] OTHER -> FALSE

\* Recv(), lines 776-786.  The select runs in one step: it returns the
\* context's error, or takes a chunk (from the parked sender), or returns
\* io.EOF on the closed channel, or parks the goroutine.
RecvStep ==
       CASE rcv.pc = "idle" ->
              /\ rcv' = [rcv EXCEPT !.pc = "recv_sel", !.res = "none"]
              /\ UNCHANGED <<stream, snd>>
         [] rcv.pc = "recv_sel" ->
              \E cancel \in BOOLEAN :
                IF cancel
                THEN /\ CtxDone(stream)
                     /\ rcv' = [rcv EXCEPT !.pc = "idle", !.res = "Canceled"]
                     /\ UNCHANGED <<stream, snd>>
                ELSE IF stream.buffered > 0
                THEN /\ rcv' = [rcv EXCEPT !.pc = "recv_got", !.taken = @ + 1,
                                                !.got = @ + 1]
                     /\ stream' = [stream EXCEPT !.buffered = @ - 1]
                     /\ UNCHANGED snd
                ELSE IF snd.pc = "send_park"
                THEN /\ rcv' = [rcv EXCEPT !.pc = "recv_got", !.taken = @ + 1,
                                                !.got = snd.sends]
                     /\ snd' = [snd EXCEPT !.pc = "send_ok"]
                     /\ UNCHANGED stream
                ELSE IF stream.chanClosed
                THEN /\ rcv' = [rcv EXCEPT !.pc = "idle", !.res = "EOF"]
                     /\ UNCHANGED <<stream, snd>>
                ELSE /\ ~CtxDone(stream)
                     /\ rcv' = [rcv EXCEPT !.pc = "recv_park"]
                     /\ UNCHANGED <<stream, snd>>
         [] rcv.pc = "recv_got" ->
              /\ rcv' = [rcv EXCEPT !.pc = "idle", !.res = "chunk"]
              /\ UNCHANGED <<stream, snd>>
         [] rcv.pc = "recv_cancel" ->
              /\ rcv' = [rcv EXCEPT !.pc = "idle", !.res = "Canceled"]
              /\ UNCHANGED <<stream, snd>>
         [] rcv.pc = "recv_eof" ->
              /\ rcv' = [rcv EXCEPT !.pc = "idle", !.res = "EOF"]
              /\ UNCHANGED <<stream, snd>>
         [] OTHER -> FALSE

\* Recv() called by a consumer that does nothing else.
Recv ==
    /\ UNCHANGED <<plugins, writer, ents, disk, th, calls, supVars, apiVars, drainVars, listVars>>
    /\ drain.pc = "off"
    /\ RecvStep

\* The goroutine g may call Close(): the producer between two calls (the
\* deferred Close of callResourceInternal, line 360), the drain goroutine
\* after a Recv that failed once a chunk was processed (flushStream, lines
\* 405-411).
MayClose(g) ==
    IF g = "snd" THEN snd.pc = "idle"
    ELSE rcv.pc = "idle" /\ rcv.res = "Canceled" /\ rcv.taken >= 1

\* close(s.stream), line 793: a second close panics; the first one wakes a
\* parked receiver with end-of-stream and makes a parked sender panic.
CloseChan(me, other) ==
    IF stream.chanClosed
    THEN <<[me EXCEPT !.pc = "panic", !.res = "panic"], other>>
    ELSE <<[me EXCEPT !.pc = "close_set", !.res = "none"],
           CASE other.pc = "recv_park" -> [other EXCEPT !.pc = "recv_eof"]
             [] other.pc = "send_park" -> [other EXCEPT !.pc = "panic", !.res = "panic"]
             [] OTHER -> other>>

\* Close(), lines 788-796, called by the goroutine g: the test of s.closed
\* and close(s.stream), then s.closed = true.  back is where g is after the
\* call.
CloseStep(g, back) ==
         LET me    == IF g = "snd" THEN snd ELSE rcv
             other == IF g = "snd" THEN rcv ELSE snd
             Set(m, o) == IF g = "snd" THEN snd' = m /\ rcv' = o
                                       ELSE rcv' = m /\ snd' = o
         IN  CASE MayClose(g) ->
                    IF CloseRefused(stream)
                    THEN /\ Set([me EXCEPT !.pc = back, !.res = "ErrCloseClosed"], other)
                         /\ UNCHANGED stream
                    ELSE /\ stream' = [stream EXCEPT !.chanClosed = TRUE,
                                                     !.closes = IF @ < 2 THEN @ + 1 ELSE @]
                         /\ Set(CloseChan(me, other)[1], CloseChan(me, other)[2])
               [] me.pc = "close_set" ->
                    /\ stream' = [stream EXCEPT !.closed = TRUE]
                    /\ Set([me EXCEPT !.pc = back, !.res = "nil"], other)
               [] OTHER -> FALSE

\* Close() called by the producer, which goes on, or by a consumer that
\* does nothing but Recv and Close, which returns after it (line 411).
Close ==
    /\ UNCHANGED <<plugins, writer, ents, disk, th, calls, supVars, apiVars, drainVars, listVars>>
    /\ drain.pc = "off"
    /\ \E g \in {"snd", "rcv"} : CloseStep(g, IF g = "snd" THEN "idle" ELSE "returned")

\* The context of the stream is cancelled (the client has gone): a parked
\* goroutine is woken on the Done case of its select.
CancelStream ==
    /\ ~stream.ctxDone
    /\ stream' = [stream EXCEPT !.ctxDone = TRUE]
    /\ snd' = IF snd.pc = "send_park" /\ CtxDone(stream')
              THEN [snd EXCEPT !.pc = "send_cancel"] ELSE snd
    /\ rcv' = IF rcv.pc = "recv_park" /\ CtxDone(stream')
              THEN [rcv EXCEPT !.pc = "recv_cancel"] ELSE rcv
    /\ UNCHANGED <<plugins, writer, ents, disk, th, calls, supVars, apiVars, drainVars, listVars>>

StreamNext == Send \/ Recv \/ Close \/ CancelStream

StreamSpec == Init /\ [][StreamNext]_vars

\* Both goroutines keep being scheduled.
StreamFairSpec == StreamSpec /\ WF_vars(Send) /\ WF_vars(Recv)

\* -------------------------------------------------------------- drain loop
\* A chunk is a backend.CallResourceResponse: nil tells whether Headers is
\* nil, Headers is the set of the <<name, value>> pairs of the map, Body the
\* place of the chunk in the plugin's plan.  The writer w keeps the header
\* of the response as a set of <<name, value>> pairs and, in out, the list
\* of the WriteHeader, Write and Flush calls made on it.
Chunk(nil, headers, status, body) ==
    [nil |-> nil, Headers |-> headers, Status |-> status, Body |-> body]

\* What the first chunk of a plan can carry.
FirstHeaders ==
    { {},
      {<<"X-Custom", "v1">>, <<"X-Custom", "v2">>},
      {<<"Set-Cookie", "sid=1">>, <<"X-Custom", "v1">>},
      {<<"set-cookie", "sid=1">>, <<"X-Custom", "v1">>},
      {<<"Content-Type", "text/html">>} }

\* What a later chunk carries if it has headers at all.
LateHeaders == {<<"X-Late", "v">>, <<"Set-Cookie", "late">>}

\* The first chunk of a plan: without headers, or with headers and status
\* 200 or 404.
FirstChunks ==
    {Chunk(TRUE, {}, 0, 1)}
      \cup {Chunk(FALSE, h, st, 1) : h \in FirstHeaders, st \in {200, 404}}

\* The k-th chunk of a plan, k > 1: bare, or with headers and a status of
\* its own.
LaterChunk(k, bare) ==
    IF bare THEN Chunk(TRUE, {}, 0, k) ELSE Chunk(FALSE, LateHeaders, 500, k)

\* The plans of a plugin: up to MaxSends chunks.
Plans ==
    {<< >>} \cup
    UNION { { [k \in 1..n |-> IF k = 1 THEN f ELSE LaterChunk(k, b[k])] :
                f \in FirstChunks, b \in [1..n -> BOOLEAN] } : n \in 1..MaxSends }

\* The names in a header map.
Keys(h) == {kv[1] : kv \in h}

\* textproto.CanonicalMIMEHeaderKey, which http.Header.Add applies to the
\* name it is given (line 431).
CanonicalKey(k) ==
    CASE k = "set-cookie"   -> "Set-Cookie"
      [] k = "content-type" -> "Content-Type"
      [] OTHER              -> k

\* Lines 416-419: Content-Type defaults to application/json.
WithContentType(h) ==
    IF "Content-Type" \in Keys(h) THEN h
    ELSE h \cup {<<"Content-Type", "application/json">>}

\* Lines 421-426: the headers that are copied, all but k == "Set-Cookie".
Forwarded(h) == {kv \in h : kv[1] # "Set-Cookie"}

\* Lines 428-432: w.Header().Add(k, v) for every value.
Add(header, h) == header \cup {<<CanonicalKey(kv[1]), kv[2]>> : kv \in h}

\* Mutant of FirstChunk: headers and status of every chunk are applied.
EveryChunk(n) == TRUE

\* Line 415: processedStreams == 0.
FirstChunk(n) == n = 0

\* Line 441: w.(http.Flusher); the writer CallResource hands over (line 314)
\* is reqCtx.Resp, which can flush.
IsFlusher == TRUE

\* flushStream, lines 414-444, on one chunk: headers and status of the first
\* chunk, then the body, then the flush.
WriteChunk(wr, resp, n) ==
    LET w1 == IF FirstChunk(n) /\ ~resp.nil
              THEN [wr EXCEPT !.header = Add(@, Forwarded(WithContentType(resp.Headers))),
                              !.out = Append(@, <<"WriteHeader", resp.Status>>)]
              ELSE wr
        w2 == [w1 EXCEPT !.out = Append(@, <<"Write", resp.Body>>)]
    IN  IF IsFlusher THEN [w2 EXCEPT !.out = Append(@, <<"Flush", 0>>)] ELSE w2

\* flushStream(plugin, stream, w), lines 394-446: Recv, then what the loop
\* does with the result; "close" is the stream.Close() of line 411.
flushStream ==
    /\ UNCHANGED <<plugins, writer, ents, disk, th, calls, supVars, apiVars, plan, call,
                   listVars>>
    /\ CASE drain.pc = "recv" ->
              /\ RecvStep
              /\ drain' = IF rcv'.pc = "idle" THEN [drain EXCEPT !.pc = "handle"] ELSE drain
              /\ UNCHANGED w
         [] drain.pc = "handle" /\ rcv.res = "EOF" ->
              /\ drain' = [drain EXCEPT !.pc = "returned",
                             !.res = IF drain.processedStreams = 0
                                     THEN "received empty resource response" ELSE "nil"]
              /\ UNCHANGED <<streamVars, w>>
         [] drain.pc = "handle" /\ rcv.res = "Canceled" ->
              /\ drain' = IF drain.processedStreams = 0
                          THEN [drain EXCEPT !.pc = "returned",
                                  !.res = "failed to receive response from resource call"]
                          ELSE [drain EXCEPT !.pc = "close"]
              /\ UNCHANGED <<streamVars, w>>
         [] drain.pc = "handle" /\ rcv.res = "chunk" ->
              /\ w' = WriteChunk(w, plan[rcv.got], drain.processedStreams)
              /\ drain' = [drain EXCEPT !.pc = "recv", !.processedStreams = @ + 1]
              /\ UNCHANGED streamVars
         [] drain.pc = "close" ->
              /\ CloseStep("rcv", "returned")
              /\ drain' = IF rcv'.pc = "returned"
                          THEN [drain EXCEPT !.pc = "returned", !.res = rcv'.res]
                          ELSE drain
              /\ UNCHANGED w
         [] OTHER -> FALSE

\* ------------------------------------------------------------ dispatch API
\* An error is the chain errors.Unwrap walks, outermost first; the empty
\* chain is the nil error.
NoErr == << >>

ErrMethodNotImplemented == "ErrMethodNotImplemented"
ErrPluginUnavailable    == "ErrPluginUnavailable"
ErrPluginNotRegistered  == "ErrPluginNotRegistered"
ErrHealthCheckFailed    == "ErrHealthCheckFailed"

\* errors.Is(err, target): target is err or something err wraps.
Is(err, target) == \E i \in 1..Len(err) : err[i] = target

\* errutil.Wrap(message, err): an error that carries message and wraps err.
Wrap(message, err) == IF err = NoErr THEN NoErr ELSE <<message>> \o err

\* What a plugin's method can fail with: one of the two sentinels or some
\* other error, bare or wrapped once by the plugin.
PluginErrors ==
    UNION { {<<s>>, <<"plugin context", s>>} :
              s \in {ErrMethodNotImplemented, ErrPluginUnavailable, "boom"} }

\* What a plugin's method answers: a response and a nil error, or no usable
\* response and an error.
PluginOutcomes ==
    { [resp |-> r, err |-> NoErr] : r \in {"resp1", "resp2"} }
      \cup { [resp |-> "none", err |-> e] : e \in PluginErrors }

\* PluginRequestValidator.Validate(dsURL, req): nil or the validator's error.
ValidateOutcomes == {NoErr, <<"denied">>}

\* Mutant of QueryDataResult: every error is wrapped.
QueryDataWrapsAll(out) ==
    IF out.err # NoErr
    THEN [resp |-> "nil", err |-> Wrap("failed to query data", out.err)]
    ELSE [resp |-> out.resp, err |-> out.err]

\* QueryData, lines 213-225, on what plugin.QueryData answered.
QueryDataResult(out) ==
    IF out.err # NoErr
    THEN IF Is(out.err, ErrMethodNotImplemented) THEN [resp |-> "nil", err |-> out.err]
         ELSE IF Is(out.err, ErrPluginUnavailable) THEN [resp |-> "nil", err |-> out.err]
         ELSE [resp |-> "nil", err |-> Wrap("failed to query data", out.err)]
    ELSE [resp |-> out.resp, err |-> out.err]

\* Mutant of QueryDataNotFound: an unknown id is an error.
QueryDataNotFoundFails == [resp |-> "nil", err |-> <<ErrPluginNotRegistered>>]

\* QueryData, lines 203-205: &backend.QueryDataResponse{}, nil.
QueryDataNotFound == [resp |-> "empty", err |-> NoErr]

\* Mutant of CollectMetricsResult: the plugin's error is wrapped.
CollectMetricsWraps(out) ==
    IF out.err # NoErr
    THEN [resp |-> "nil", err |-> Wrap("failed to collect metrics", out.err)]
    ELSE [resp |-> out.resp, err |-> NoErr]

\* CollectMetrics, lines 459-463, on what p.CollectMetrics answered.
CollectMetricsResult(out) ==
    IF out.err # NoErr THEN [resp |-> "nil", err |-> out.err]
    ELSE [resp |-> out.resp, err |-> NoErr]

\* Mutant of CheckHealthResult: the cause is wrapped, not the sentinel.
CheckHealthKeepsCause(out) ==
    IF out.err # NoErr
    THEN IF Is(out.err, ErrMethodNotImplemented) THEN [resp |-> "nil", err |-> out.err]
         ELSE IF Is(out.err, ErrPluginUnavailable) THEN [resp |-> "nil", err |-> out.err]
         ELSE [resp |-> "nil",
               err |-> Wrap("failed to check plugin health", out.err)]
    ELSE [resp |-> out.resp, err |-> NoErr]

\* CheckHealth, lines 491-503, on what p.CheckHealth answered.
CheckHealthResult(out) ==
    IF out.err # NoErr
    THEN IF Is(out.err, ErrMethodNotImplemented) THEN [resp |-> "nil", err |-> out.err]
         ELSE IF Is(out.err, ErrPluginUnavailable) THEN [resp |-> "nil", err |-> out.err]
         ELSE [resp |-> "nil",
               err |-> Wrap("failed to check plugin health", <<ErrHealthCheckFailed>>)]
    ELSE [resp |-> out.resp, err |-> NoErr]

\* Mutant of CheckHealthDenied: the validator's verdict is not looked at.
CheckHealthNeverDenied(verr) == FALSE

\* CheckHealth, line 473: if err != nil after Validate.
CheckHealthDenied(verr) == verr # NoErr

\* Mutant of CallResourceDenied: the validator's verdict is not looked at.
CallResourceNeverDenied(verr) == FALSE

\* CallResource, line 298: if err != nil after Validate.
CallResourceDenied(verr) == verr # NoErr

\* Mutant of handleCallResourceError: the statuses of the two sentinels
\* exchanged.
handleCallResourceErrorSwapped(err) ==
    IF Is(err, ErrPluginUnavailable) THEN <<404, "Not found">>
    ELSE IF Is(err, ErrMethodNotImplemented) THEN <<503, "Plugin unavailable">>
    ELSE <<500, "Failed to call resource">>

\* Mutant of handleCallResourceError: the sentinels are not recognised.
handleCallResourceErrorBlind(err) == <<500, "Failed to call resource">>

\* handleCallResourceError(err, reqCtx), lines 380-392: the status and the
\* message of the one JsonApiErr it makes.
handleCallResourceError(err) ==
    IF Is(err, ErrPluginUnavailable) THEN <<503, "Plugin unavailable">>
    ELSE IF Is(err, ErrMethodNotImplemented) THEN <<404, "Not found">>
    ELSE <<500, "Failed to call resource">>

\* What the drain loop of a resource call returns (flushStream, lines
\* 399-411): nil, the empty-response error, or a wrapped receive error.
FlushOutcomes ==
    { NoErr, <<"received empty resource response">>,
      <<"failed to receive response from resource call", "context canceled">> }

\* callResourceInternal, lines 372-376: the plugin's error if there is one,
\* else the drain loop's.
CallResourceInternalResult(out, flushStreamErr) ==
    IF out.err # NoErr THEN out.err ELSE flushStreamErr

\* A dispatch call op for plugin id begins.  out is what the plugin's method
\* answered, eff the list of what the call has done so far.
ApiCall(op, id) ==
    [op |-> op, id |-> id, pc |-> "validate", verr |-> NoErr, found |-> Nil,
     p |-> Nil, out |-> [resp |-> "none", err |-> NoErr], eff |-> << >>,
     resp |-> "none", err |-> NoErr, http |-> << >>]

\* The call a returns resp and err to its caller.
ApiReturn(a, resp, err) == [a EXCEPT !.pc = "done", !.resp = resp, !.err = err]

\* m.Plugin(id) inside a dispatch call, lines 228-238: the read of the map,
\* then, as a step of its own, the test of IsDecommissioned.
ApiLookup(a, notFound, next) ==
    CASE a.pc = "lookup" ->
           [a EXCEPT !.pc = "lookup_ck", !.found = PluginRead(plugins, a.id),
                     !.eff = Append(@, "lookup")]
      [] a.pc = "lookup_ck" ->
           IF PluginResult(ents, a.found) = Nil
           THEN ApiReturn([a EXCEPT !.found = Nil], notFound.resp, notFound.err)
           ELSE [a EXCEPT !.pc = next, !.p = a.found, !.found = Nil]

ApiFrame == UNCHANGED <<plugins, writer, ents, disk, th, calls, supVars,
                        streamVars, drainVars, listVars>>

\* QueryData(ctx, req), lines 201-226.
QueryData ==
    /\ ApiFrame
    /\ CASE api.pc \in {"idle", "done"} ->
              \E id \in Ids : api' = [ApiCall("QueryData", id) EXCEPT !.pc = "lookup"]
         [] api.op = "QueryData" /\ api.pc \in {"lookup", "lookup_ck"} ->
              api' = ApiLookup(api, QueryDataNotFound, "invoke")
         [] api.op = "QueryData" /\ api.pc = "invoke" ->
              \E out \in PluginOutcomes :
                LET r == QueryDataResult(out) IN
                  api' = ApiReturn([api EXCEPT !.eff = Append(@, "invoke"), !.out = out],
                                   r.resp, r.err)
         [] OTHER -> FALSE

\* CollectMetrics(ctx, pluginID), lines 448-464.
CollectMetrics ==
    /\ ApiFrame
    /\ CASE api.pc \in {"idle", "done"} ->
              \E id \in Ids : api' = [ApiCall("CollectMetrics", id) EXCEPT !.pc = "lookup"]
         [] api.op = "CollectMetrics" /\ api.pc \in {"lookup", "lookup_ck"} ->
              api' = ApiLookup(api, [resp |-> "nil", err |-> <<ErrPluginNotRegistered>>],
                               "invoke")
         [] api.op = "CollectMetrics" /\ api.pc = "invoke" ->
              \E out \in PluginOutcomes :
                LET r == CollectMetricsResult(out) IN
                  api' = ApiReturn([api EXCEPT !.eff = Append(@, "invoke"), !.out = out],
                                   r.resp, r.err)
         [] OTHER -> FALSE

\* CheckHealth(ctx, pluginContext), lines 466-504.
CheckHealth ==
    /\ ApiFrame
    /\ CASE api.pc \in {"idle", "done"} ->
              \E id \in Ids : api' = ApiCall("CheckHealth", id)
         [] api.op = "CheckHealth" /\ api.pc = "validate" ->
              \E verr \in ValidateOutcomes :
                api' = IF CheckHealthDenied(verr)
                       THEN ApiReturn([api EXCEPT !.verr = verr], "403 Access denied", NoErr)
                       ELSE [api EXCEPT !.verr = verr, !.pc = "lookup"]
         [] api.op = "CheckHealth" /\ api.pc \in {"lookup", "lookup_ck"} ->
              api' = ApiLookup(api, [resp |-> "nil", err |-> <<ErrPluginNotRegistered>>],
                               "invoke")
         [] api.op = "CheckHealth" /\ api.pc = "invoke" ->
              \E out \in PluginOutcomes :
                LET r == CheckHealthResult(out) IN
                  api' = ApiReturn([api EXCEPT !.eff = Append(@, "invoke"), !.out = out],
                                   r.resp, r.err)
         [] OTHER -> FALSE

\* callResourceInternal returns err to CallResource (line 314).
InternalReturn(a, err) == [a EXCEPT !.pc = "ret", !.err = err]

\* CallResource(pCtx, reqCtx, path), lines 291-318, with the part of
\* callResourceInternal (lines 320-378) that decides its error.  http is the
\* list of the JsonApiErr calls made on reqCtx.
CallResource ==
    /\ ApiFrame
    /\ CASE api.pc \in {"idle", "done"} ->
              \E id \in Ids : api' = ApiCall("CallResource", id)
         [] api.op = "CallResource" /\ api.pc = "validate" ->
              \E verr \in ValidateOutcomes, parsed \in BOOLEAN :
                api' = IF CallResourceDenied(verr)
                       THEN ApiReturn([api EXCEPT !.verr = verr,
                                         !.http = Append(@, <<403, "Access denied">>)],
                                      "none", NoErr)
                       ELSE IF ~parsed
                       THEN ApiReturn([api EXCEPT !.verr = verr,
                                         !.http = Append(@, handleCallResourceError(<<"parse">>))],
                                      "none", <<"parse">>)
                       ELSE [api EXCEPT !.verr = verr, !.pc = "lookup"]
         [] api.op = "CallResource" /\ api.pc \in {"lookup", "lookup_ck"} ->
              LET a == ApiLookup(api, [resp |-> "none", err |-> <<ErrPluginNotRegistered>>],
                                 "body")
              IN  api' = IF a.pc = "done" THEN InternalReturn(a, a.err) ELSE a
         [] api.op = "CallResource" /\ api.pc = "body" ->
              \E read \in BOOLEAN :
                api' = IF read THEN [api EXCEPT !.pc = "invoke", !.eff = Append(@, "stream")]
                       ELSE InternalReturn(api, <<"failed to read request body", "read">>)
         [] api.op = "CallResource" /\ api.pc = "invoke" ->
              \E out \in PluginOutcomes, flushStreamErr \in FlushOutcomes :
                api' = InternalReturn([api EXCEPT !.eff = Append(@, "invoke"), !.out = out],
                                      CallResourceInternalResult(out, flushStreamErr))
         [] api.op = "CallResource" /\ api.pc = "ret" ->
              api' = ApiReturn([api EXCEPT !.http =
                                  IF api.err # NoErr
                                  THEN Append(@, handleCallResourceError(api.err)) ELSE @],
                               "none", api.err)
         [] OTHER -> FALSE

ApiNext ==
    \/ QueryData
    \/ CollectMetrics
    \/ CheckHealth
    \/ CallResource
    \/ \E c \in Cells : Decommission(c)

ApiSpec == Init /\ [][ApiNext]_vars

\* ------------------------------------------------------------ resource call
\* p.CallResource has returned (line 372): the plugin has made the Send
\* calls of its plan, or has given up on a Send that failed.
PluginReturned ==
    snd.pc = "idle" /\ (snd.sends = Len(plan) \/ snd.res \in {"cancelled", "ErrSendClosed"})

\* The variable flushStreamErr of callResourceInternal (line 364) as a
\* goroutine reads it: nil until the drain goroutine has assigned it what
\* flushStream returned (line 366).
FlushStreamErr ==
    CASE drain.pc # "returned" -> NoErr
      [] drain.res = "nil" -> NoErr
      [] drain.res = "failed to receive response from resource call" ->
           Wrap(drain.res, <<"context canceled">>)
      [] OTHER -> <<drain.res>>

\* callResourceInternal, lines 372-376: p.CallResource returns err, and the
\* return statement fixes the result of the call, err or what flushStreamErr
\* holds at that moment; the deferred function runs after it.
callResourceInternal ==
    /\ call.pc = "plugin" /\ PluginReturned
    /\ \E err \in {NoErr, <<"boom">>} :
         call' = [pc |-> "close", err |-> err,
                  res |-> CallResourceInternalResult([err |-> err], FlushStreamErr)]
    /\ UNCHANGED <<plugins, writer, ents, disk, th, calls, supVars, streamVars, apiVars,
                   plan, drain, w, listVars>>

\* The deferred function of callResourceInternal, lines 359-363:
\* stream.Close(), its error logged, then wg.Wait() for the drain goroutine
\* (wg.Done, line 367), and the call has returned.
DeferredClose ==
    /\ UNCHANGED <<plugins, writer, ents, disk, th, calls, supVars, apiVars, plan, drain, w,
                   listVars>>
    /\ CASE call.pc = "close" ->
              /\ CloseStep("snd", "returned")
              /\ call' = IF snd'.pc = "returned" THEN [call EXCEPT !.pc = "wait"] ELSE call
         [] call.pc = "wait" ->
              /\ drain.pc = "returned"
              /\ call' = [call EXCEPT !.pc = "done"]
              /\ UNCHANGED streamVars
         [] OTHER -> FALSE

\* A resource call begins (callResourceInternal, lines 351-370): the plugin
\* has its plan, the stream is new, the drain goroutine is about to call
\* Recv, nothing has been written.
CallInit ==
    /\ plugins = [i \in Ids |-> IF i = "acme" THEN 1 ELSE Nil]
    /\ writer = NoThread
    /\ ents = [c \in Cells |->
                 IF c = 1
                 THEN [Desc("acme", "external", "1.0.0", <<"data", "plugins", "acme">>, TRUE)
                         EXCEPT !.proc = "running"]
                 ELSE Free]
    /\ disk = [d \in DiskDirs |->
                 IF d \in {<<"data">>, <<"data", "plugins">>} THEN "dir"
                 ELSE IF d = <<"data", "plugins", "acme">> THEN "1.0.0"
                 ELSE "absent"]
    /\ th = [t \in Threads |-> Idle]
    /\ calls = 0
    /\ SupIdle /\ StreamIdle /\ ApiIdle /\ ListIdle
    /\ plan \in Plans
    /\ drain = [pc |-> "recv", processedStreams |-> 0, res |-> "none"]
    /\ w = [header |-> {}, out |-> << >>]
    /\ call = [pc |-> "plugin", err |-> NoErr, res |-> NoErr]

CallNext == Send \/ callResourceInternal \/ DeferredClose \/ flushStream \/ CancelStream

CallSpec == CallInit /\ [][CallNext]_vars

\* ------------------------------------------------------- listing accessors
\* plugins.PluginTypes, the types Plugins() assumes when none is passed.
PluginTypes == {"datasource", "panel", "app", "renderer"}

\* The type arguments callers pass to Plugins.
TypeArgs == { {}, {"datasource"}, {"app", "renderer"} }

\* PluginV2.IsRenderer
IsRenderer(o) == o.type = "renderer"

\* Plugins, lines 254-261: requestedTypes, all the types when none is passed.
RequestedTypes(types) == IF types = {} THEN PluginTypes ELSE types

\* A listing accessor is entered: the range over m.plugins has visited no
\* key yet.  None of the four takes pluginsMu.
IterBegin(op, types, id) ==
    [pc |-> "iter", op |-> op, types |-> types, id |-> id, todo |-> Ids,
     snap |-> plugins, res |-> << >>, hitDec |-> FALSE]

\* One round of `for ... range m.plugins`: the key i, not visited yet, and
\* the entry the map has for it now.  take: the body keeps the entry; ret:
\* the body returns.  When the map was written since the last round, by a
\* goroutine in Register or unregister, the runtime may stop the program
\* ("concurrent map iteration and map write") or the range goes on with the
\* map as it is now.  After the last key the accessor returns.
IterStep(i, fatal, take, ret) ==
    LET c == plugins[i] IN
      /\ fatal => plugins # iter.snap
      /\ iter' = IF fatal THEN [iter EXCEPT !.pc = "fatal"]
                 ELSE [iter EXCEPT
                         !.todo   = @ \ {i},
                         !.snap   = plugins,
                         !.res    = IF c # Nil /\ take THEN Append(@, i) ELSE @,
                         !.hitDec = @ \/ (c # Nil /\ take /\ ents[c].dec),
                         !.pc     = IF (c # Nil /\ ret) \/ iter.todo = {i}
                                    THEN "done" ELSE "iter"]

\* Plugins(pluginTypes...), lines 252-270: the entries whose Type is
\* requested, in the order of the range.
Plugins ==
    /\ UNCHANGED <<plugins, writer, ents, disk, th, calls, supVars, streamVars, apiVars,
                   drainVars>>
    /\ CASE iter.pc \in {"idle", "done"} ->
              \E types \in TypeArgs : iter' = IterBegin("Plugins", RequestedTypes(types), "")
         [] iter.pc = "iter" /\ iter.op = "Plugins" ->
              \E i \in iter.todo, fatal \in BOOLEAN :
                IterStep(i, fatal, plugins[i] # Nil /\ ents[plugins[i]].type \in iter.types,
                         FALSE)
         [] OTHER -> FALSE

\* Renderer(), lines 272-280: the first entry of the range that is a
\* renderer, nil when there is none.
Renderer ==
    /\ UNCHANGED <<plugins, writer, ents, disk, th, calls, supVars, streamVars, apiVars,
                   drainVars>>
    /\ CASE iter.pc \in {"idle", "done"} ->
              iter' = IterBegin("Renderer", {}, "")
         [] iter.pc = "iter" /\ iter.op = "Renderer" ->
              \E i \in iter.todo, fatal \in BOOLEAN :
                LET r == plugins[i] # Nil /\ IsRenderer(ents[plugins[i]])
                IN  IterStep(i, fatal, r, r)
         [] OTHER -> FALSE

\* StaticRoutes(), lines 282-289: the static routes of every entry.
StaticRoutes ==
    /\ UNCHANGED <<plugins, writer, ents, disk, th, calls, supVars, streamVars, apiVars,
                   drainVars>>
    /\ CASE iter.pc \in {"idle", "done"} ->
              iter' = IterBegin("StaticRoutes", {}, "")
         [] iter.pc = "iter" /\ iter.op = "StaticRoutes" ->
              \E i \in iter.todo, fatal \in BOOLEAN : IterStep(i, fatal, TRUE, FALSE)
         [] OTHER -> FALSE

\* IsSupported(pluginID), lines 574-581: true at the key that is pluginID.
IsSupported ==
    /\ UNCHANGED <<plugins, writer, ents, disk, th, calls, supVars, streamVars, apiVars,
                   drainVars>>
    /\ CASE iter.pc \in {"idle", "done"} ->
              \E id \in Ids : iter' = IterBegin("IsSupported", {}, id)
         [] iter.pc = "iter" /\ iter.op = "IsSupported" ->
              \E i \in iter.todo, fatal \in BOOLEAN :
                IterStep(i, fatal, i = iter.id, i = iter.id)
         [] OTHER -> FALSE

\* acme and testdata, either of them registered or not, each a datasource
\* or a renderer; no call is under way.
ListInit ==
    \E present \in SUBSET Ids, ty \in [Ids -> {"datasource", "renderer"}] :
      LET cell == [i \in Ids |-> IF i = "acme" THEN 1 ELSE 2] IN
        /\ plugins = [i \in Ids |-> IF i \in present THEN cell[i] ELSE Nil]
        /\ writer = NoThread
        /\ ents = [c \in Cells |->
                     IF \E i \in present : cell[i] = c
                     THEN LET i == CHOOSE i \in present : cell[i] = c
                          IN  [Desc(i, "external", "1.0.0", Append(PluginsPath, i), TRUE)
                                 EXCEPT !.type = ty[i]]
                     ELSE Free]
        /\ disk = [d \in DiskDirs |->
                     IF d \in {<<"data">>, <<"data", "plugins">>} THEN "dir"
                     ELSE IF \E i \in present : d = Append(PluginsPath, i) THEN "1.0.0"
                     ELSE "absent"]
        /\ th = [t \in Threads |-> Idle]
        /\ calls = 0
        /\ SupIdle /\ StreamIdle /\ ApiIdle /\ DrainIdle /\ ListIdle

ListNext ==
    \/ \E t \in Threads : Register(t)
    \/ \E t \in Threads : unregister(t)
    \/ \E t \in Threads : Finish(t)
    \/ \E c \in Cells : Decommission(c)
    \/ Plugins
    \/ Renderer
    \/ StaticRoutes
    \/ IsSupported

ListSpec == ListInit /\ [][ListNext]_vars

\* =================================================================== claims
\* Goroutine t takes the step.
Acts(t) == th'[t] # th[t]

\* The objects of the heap keep their fields in the step, and none is added.
HeapUntouched == \A c \in Cells : ents'[c].used => ents'[c] = ents[c]

\* C1: Register fails with "already registered" and leaves the map as it was
\* whenever the map holds an entry under the plugin's id, decommissioned or
\* not; otherwise it succeeds and has put the new plugin, and nothing else,
\* into the map.  unregister leaves no entry under the id, an absent id gets
\* an entry again only by a registration, and a Plugin call that reads the
\* map while the id is absent returns nil.
C1_RegistryUniqueness ==
    [][ /\ \A t \in Threads : Acts(t) /\ th'[t].op = "Register" =>
             LET id == th'[t].id IN
               IF plugins[id] # Nil
               THEN th'[t].res = "AlreadyRegistered" /\ plugins' = plugins
               ELSE /\ th'[t].res = "nil"
                    /\ plugins'[id] # Nil
                    /\ ~ents[plugins'[id]].used
                    /\ ents'[plugins'[id]].id = id
                    /\ \A j \in Ids \ {id} : plugins'[j] = plugins[j]
        /\ \A t \in Threads : Acts(t) /\ th'[t].op = "unregister" =>
             plugins'[th'[t].id] = Nil
        /\ \A id \in Ids : plugins[id] = Nil /\ plugins'[id] # Nil =>
             \E t \in Threads : /\ Acts(t)
                                /\ th'[t].eff # << >>
                                /\ th'[t].eff[Len(th'[t].eff)] = "insert"
        /\ \A t \in Threads : Acts(t) /\ th'[t].op = "Plugin" =>
             /\ th'[t].pc = "pl_ck" /\ plugins[th'[t].id] = Nil => th'[t].found = Nil
             /\ th'[t].pc = "done" /\ th[t].found = Nil => th'[t].p = Nil
      ]_vars

\* Register has been refused for an id whose entry is decommissioned.
C1_Witness ==
    \E t \in Threads :
      /\ th[t].op = "Register" /\ th[t].res = "AlreadyRegistered"
      /\ plugins[th[t].id] # Nil /\ ents[plugins[th[t].id]].dec

\* C2: Plugin(id) returns the entry the map holds under id if that entry is
\* not decommissioned, and nil in every other case (no entry, or an entry
\* that is decommissioned): the entry is the one read under the read lock,
\* the flag the one read by the check that follows.
C2_PluginEligibility ==
    [][ \A t \in Threads : Acts(t) /\ th'[t].op = "Plugin" =>
          /\ th'[t].pc = "pl_ck" => th'[t].found = plugins[th'[t].id]
          /\ th'[t].pc = "done" =>
               th'[t].p = IF th[t].found # Nil /\ ~ents[th[t].found].dec
                          THEN th[t].found ELSE Nil
      ]_vars

\* Plugin has returned nil for an id whose entry is in the map, decommissioned.
C2_Witness ==
    \E t \in Threads :
      /\ th[t].op = "Plugin" /\ th[t].pc = "done" /\ th[t].p = Nil
      /\ plugins[th[t].id] # Nil /\ ents[plugins[th[t].id]].dec

\* C3: a decommissioned object stays decommissioned for as long as it
\* exists, and no call ever gets a decommissioned object from its lookup:
\* whenever a call's plugin pointer is set, the object is not decommissioned
\* at that moment, its entry in the map notwithstanding.
C3_DecommissionOneWay ==
    [][ /\ \A c \in Cells : ents[c].used /\ ents[c].dec =>
             ~ents'[c].used \/ ents'[c].dec
        /\ \A t \in Threads : Acts(t) =>
             /\ th'[t].p # Nil /\ th'[t].p # th[t].p => ~ents[th'[t].p].dec
             /\ th'[t].plugin # Nil /\ th'[t].plugin # th[t].plugin
                  => ~ents[th'[t].plugin].dec
             /\ th[t].pc \in {"pl_ck", "d_ck", "un_ck", "in_ck", "uas_ck"}
                  /\ th[t].found # Nil /\ ents[th[t].found].dec
                  => th'[t].p = Nil /\ th'[t].plugin = Nil
      ]_vars

\* QueryData has answered for an id as for an unknown plugin while the map
\* still holds the entry, decommissioned.
C3_Witness ==
    \E t \in Threads :
      /\ th[t].op = "QueryData" /\ th[t].pc = "done" /\ th[t].res = "empty"
      /\ plugins[th[t].id] # Nil /\ ents[plugins[th[t].id]].dec

DispatchOps == {"QueryData", "CollectMetrics"}

\* C4: no dispatch call that runs while an UnregisterAndStop of the same id
\* is in progress has called a method of the plugin at a moment when the
\* plugin was decommissioned.
C4_NoDispatchToDecommissioned ==
    \A t \in Threads, u \in Threads :
      /\ th[t].op \in DispatchOps /\ th[t].pc = "done"
      /\ th[u].op = "UnregisterAndStop" /\ th[u].pc # "done" /\ th[u].id = th[t].id
      => ~th[t].hitDec

\* C5: an Uninstall that has looked up an external plugin whose PluginDir is
\* not a descendant of the plugins root has returned
\* ErrUninstallOutsideOfPluginDir and has had no effect.
C5_UninstallOutsideRefused ==
    \A t \in Threads :
      /\ th[t].op = "Uninstall" /\ th[t].obj.used
      /\ IsExternalPlugin(th[t].obj) /\ ~IsDescendant(th[t].obj.dir)
      => th[t].pc = "done" /\ th[t].res = "ErrUninstallOutsideOfPluginDir"
                           /\ th[t].eff = << >>

\* C6: Uninstall(id) returns ErrPluginNotInstalled when the lookup gives no
\* dispatch-eligible plugin and ErrUninstallCorePlugin when it gives a core
\* plugin; neither the lookup nor the checks change the registry, the
\* plugins or the disk, and the call has had no effect when it returns.
C6_UninstallRefusals ==
    [][ \A t \in Threads : Acts(t) /\ th'[t].op = "Uninstall" =>
          /\ th'[t].pc = "un_ck" =>
               plugins' = plugins /\ disk' = disk /\ HeapUntouched
          /\ th[t].pc = "un_ck" =>
               LET f    == th[t].found
                   none == f = Nil \/ ents[f].dec
               IN /\ none =>
                       /\ th'[t].pc = "done" /\ th'[t].res = "ErrPluginNotInstalled"
                       /\ th'[t].eff = << >>
                       /\ plugins' = plugins /\ disk' = disk /\ HeapUntouched
                  /\ ~none /\ ents[f].class = "core" =>
                       /\ th'[t].pc = "done" /\ th'[t].res = "ErrUninstallCorePlugin"
                       /\ th'[t].eff = << >>
                       /\ plugins' = plugins /\ disk' = disk /\ HeapUntouched
      ]_vars

\* Uninstall has refused a core plugin, which is still registered.
C6_Witness ==
    \E t \in Threads :
      /\ th[t].op = "Uninstall" /\ th[t].pc = "done"
      /\ th[t].res = "ErrUninstallCorePlugin"
      /\ plugins[th[t].id] # Nil /\ ents[plugins[th[t].id]].class = "core"

\* C7: an Uninstall that has returned success has decommissioned the plugin,
\* stopped it, removed its entry from the registry (UnregisterAndStop and
\* unregister each delete it) and then deleted its files, in this order.
C7_UninstallOrder ==
    \A t \in Threads :
      th[t].op = "Uninstall" /\ th[t].pc = "done" /\ th[t].res = "nil"
      => th[t].eff = <<"decommission", "stop", "delete", "delete", "rm">>

\* The refusals of Install: with a plugin present that is not external the
\* call returns ErrInstallCorePlugin, with an external one of the requested
\* version a DuplicatePluginError that carries the plugin's directory, and
\* in both cases the registry, the plugins and the disk are as before.
InstallRefusals ==
    [][ \A t \in Threads : Acts(t) /\ th'[t].op = "Install" =>
          /\ th'[t].pc = "in_ck" =>
               plugins' = plugins /\ disk' = disk /\ HeapUntouched
          /\ th[t].pc = "in_ck" /\ th[t].found # Nil /\ ~ents[th[t].found].dec =>
               LET o == ents[th[t].found] IN
                 /\ o.class # "external" =>
                      /\ th'[t].pc = "done" /\ th'[t].res = "ErrInstallCorePlugin"
                      /\ th'[t].eff = << >>
                      /\ plugins' = plugins /\ disk' = disk /\ HeapUntouched
                 /\ o.class = "external" /\ o.ver = th[t].ver =>
                      /\ th'[t].pc = "done" /\ th'[t].res = "DuplicatePluginError"
                      /\ th'[t].dir = o.dir /\ th'[t].eff = << >>
                      /\ plugins' = plugins /\ disk' = disk /\ HeapUntouched
      ]_vars

\* After a successful Install(id, version) the next Install of the same id
\* and version meets the duplicate check: the id is registered, eligible,
\* external and of that version.
SecondInstallIsDuplicate(t) ==
    LET c == plugins[th[t].id] IN
      /\ c # Nil /\ ~ents[c].dec
      /\ IsExternalPlugin(ents[c]) /\ ents[c].ver = th[t].ver

C9_UpdateCompletes ==
    \A t \in Threads : th[t].op = "Install" =>
      /\ ~(th[t].pc = "uas_rd" /\ writer = t)
      /\ th[t].pc = "done" /\ th[t].res = "ErrUpdateInfo" => th[t].eff = << >>

\* C10: installPlugins(dir), called directly or at the end of Install,
\* returns an error when dir does not exist, having discovered and loaded
\* nothing and registered and started nothing.
C10_MissingDirFails ==
    [][ \A t \in Threads :
          /\ Acts(t)
          /\ \/ th[t].pc = "idle" /\ th'[t].op = "installPlugins"
             \/ th[t].pc = "ip_start"
          /\ ~Exists(disk, th'[t].path)
          => /\ th'[t].pc = "done" /\ th'[t].res = "ErrNoPluginsDir"
             /\ th'[t].eff = (IF th[t].pc = "idle" THEN << >> ELSE th[t].eff)
             /\ plugins' = plugins /\ disk' = disk /\ HeapUntouched
      ]_vars

\* installPlugins has failed on a directory that is missing.
C10_Witness ==
    \E t \in Threads :
      /\ th[t].op = "installPlugins" /\ th[t].pc = "done"
      /\ th[t].res = "ErrNoPluginsDir" /\ th[t].eff = << >>
      /\ ~Exists(disk, th[t].path)

\* The places of the loaded batch that filterOutDuplicates keeps: the id has
\* not occurred at an earlier place, Plugin(id) is nil, and the id is not
\* reserved for a compiled-in core plugin.
KeptPlaces(E, m, ids) ==
    { k \in 1..Len(ids) :
        /\ \A j \in 1..(k - 1) : ids[j] # ids[k]
        /\ m[ids[k]] = Nil \/ E[m[ids[k]]].dec
        /\ ids[k] \notin corePluginJSONPaths }

\* C11: the list filterOutDuplicates gives installPlugins holds exactly the
\* loaded plugins at the kept places, in the order of the batch: each id at
\* most once and by its first occurrence, no id for which Plugin(id) is
\* non-nil, no reserved id, and every other loaded plugin.
C11_FilterOutDuplicates ==
    [][ \A t \in Threads : Acts(t) /\ th[t].pc = "ip_filter" =>
          LET in   == th[t].list
              out  == th'[t].list
              kept == KeptPlaces(ents, plugins, IdsOf(ents, in))
              at(c) == CHOOSE k \in 1..Len(in) : in[k] = c
          IN /\ {out[i] : i \in 1..Len(out)} = {in[k] : k \in kept}
             /\ Len(out) = Cardinality(kept)
             /\ \A i, j \in 1..Len(out) : i < j => at(out[i]) < at(out[j])
             /\ \A i, j \in 1..Len(out) : i # j => ents[out[i]].id # ents[out[j]].id
      ]_vars

\* The filter has been given a batch with the same unregistered id at two
\* places, and has kept the plugin of the first place only.
C11_Witness ==
    \E t \in Threads :
      /\ th[t].pc = "ip_loop" /\ Len(th[t].loaded) >= 2
      /\ th[t].loaded[1] = th[t].loaded[2]
      /\ th[t].list = <<1>>

\* C12: installPlugins is fail-fast.  In a call in which the start of a
\* plugin has failed, the failed start is the last thing the call did with
\* any plugin of the batch, and the call does not return success.
C12_FailFast ==
    \A t \in Threads :
      /\ th[t].op \in {"installPlugins", "Install"}
      /\ \E k \in 1..Len(th[t].eff) : th[t].eff[k] = "startfail"
      => /\ th[t].eff[Len(th[t].eff)] = "startfail"
         /\ th[t].pc = "done" => th[t].res # "nil"

\* The supervision goroutine of the plugin calls Start in this step.
StartsAgain(c) == loop[c] = "start" /\ loop'[c] # "start"

\* C13: once the supervision goroutine of a plugin runs, every time the
\* plugin's process is gone and the plugin is not decommissioned the
\* goroutine gets to call Start (unless the plugin is decommissioned first);
\* and after a Start that failed the goroutine is back at its select.
C13_RestartAfterExit ==
    /\ \A c \in Cells :
         (loop[c] \notin {"none", "off"} /\ Exited(ents[c]) /\ ~ents[c].dec)
           ~> (loop[c] = "start" \/ ents[c].dec)
    /\ [][ \A c \in Cells :
             StartsAgain(c) /\ ents'[c].proc # "running" => loop'[c] = "wait" ]_vars

\* The process of a running, supervised plugin has died and the goroutine is
\* about to call Start.
C13_Witness ==
    \E c \in Cells :
      loop[c] = "start" /\ ents[c].proc = "exited" /\ ~ents[c].dec

\* C14: the supervision goroutine never calls Start on a plugin that is
\* decommissioned.
C14_NoStartAfterDecommission ==
    [][ \A c \in Cells : StartsAgain(c) => ~ents[c].dec ]_vars

\* C15: the supervision goroutine never calls Start on a plugin that the
\* stop() of the shutdown has stopped.
C15_StoppedIsTerminal ==
    [][ \A c \in Cells : StartsAgain(c) => task[c] # "stopped" ]_vars

\* C16: stop() calls Stop at most once on a plugin and only on plugins of
\* the registry, and when it has returned it has called Stop on every plugin
\* of the registry and every one of these calls has returned, with an error
\* or without; Run then returns the error of its context, whatever the Stop
\* calls returned.
C16_StopAll ==
    /\ \A c \in Cells : stops[c] <= 1 /\ (stops[c] = 1 => InRegistry(c))
    /\ shutdown.pc = "returned" =>
         /\ \A c \in Cells : InRegistry(c) =>
              stops[c] = 1 /\ task[c] \in {"stopped", "failed"}
         /\ shutdown.res = "Canceled"

\* stop() has returned; the Stop of one plugin failed, that of the other did
\* not.
C16_Witness ==
    /\ shutdown.pc = "returned"
    /\ \E c, d \in Cells : task[c] = "failed" /\ task[d] = "stopped"

\* C17: a plugin with a managed backend that start() has been called for,
\* whose process is not running and that is not decommissioned, has a
\* supervision goroutine that will call Start.
C17_StartFailureRetried ==
    \A c \in Cells :
      /\ ents[c].used /\ ents[c].backend /\ loop[c] # "none"
      /\ Exited(ents[c]) /\ ~ents[c].dec
      => loop[c] \in {"wait", "ck_exit", "start"}

\* A call of Send that is in its select, parked or not yet.
SendBlocked == snd.pc \in {"send_sel", "send_park"}

\* A call of Recv that is in its select, parked or not yet.
RecvBlocked == rcv.pc \in {"recv_sel", "recv_park"}

\* C18: the Sends that have returned nil never outnumber the chunks Recv has
\* taken from the channel, a Send about to return nil has had its chunk
\* taken, and a Send in its select stays there over every step in which no
\* Recv takes a chunk and the context is not done.
C18_NoBuffering ==
    /\ [](/\ snd.sent <= rcv.taken
          /\ snd.pc = "send_ok" => rcv.taken = snd.sent + 1
          /\ stream.buffered = 0)
    /\ [][ SendBlocked /\ rcv'.taken = rcv.taken /\ ~stream'.ctxDone
             => SendBlocked' /\ snd'.sent = snd.sent ]_vars

\* After a Send that returned nil the next Send is parked: there is no
\* receiver and the context is not done.
C18_Witness ==
    /\ snd.sent >= 1 /\ rcv.res = "chunk"
    /\ snd.pc = "send_park" /\ rcv.pc = "idle" /\ ~stream.ctxDone

C20_Close ==
    /\ [](stream.closes <= 1 /\ snd.pc # "panic" /\ rcv.pc # "panic")
    /\ (stream.chanClosed /\ (RecvBlocked \/ rcv.pc = "recv_eof"))
          ~> (rcv.pc \notin {"recv_sel", "recv_park", "recv_eof"})
    /\ [][ /\ snd.pc = "idle" /\ snd'.pc = "close_set" =>
                ~stream.closed /\ stream'.chanClosed /\ stream'.closes = 1
           /\ snd.pc = "close_set" /\ snd' # snd =>
                snd'.pc = "idle" /\ snd'.res = "nil" /\ stream'.closed
           /\ snd.pc = "idle" /\ snd' # snd /\ snd'.res = "ErrCloseClosed" =>
                stream.closed /\ stream' = stream
           /\ snd.pc = "idle" /\ snd'.sends # snd.sends /\ stream.closed =>
                snd'.pc = "idle" /\ snd'.res = "ErrSendClosed"
           /\ RecvBlocked /\ rcv'.pc = "idle" /\ stream.chanClosed /\ ~stream.ctxDone =>
                rcv'.res = "EOF"
           /\ rcv.pc = "recv_park" /\ stream'.chanClosed => rcv'.pc = "recv_eof"
         ]_vars

\* C20, calls one after the other: the stream was closed once, a second
\* Close has been refused and a Recv has returned io.EOF.
C20_SequentialClose ==
    /\ stream.closed /\ stream.closes = 1 /\ ~stream.ctxDone
    /\ snd.res = "ErrCloseClosed" /\ rcv.res = "EOF"

\* The dispatch call under way has done e (looked the plugin up, made the
\* stream, invoked the plugin).
Did(e) == \E i \in 1..Len(api.eff) : api.eff[i] = e

\* The pointer the call read from the registry is nil or decommissioned.
NotEligible(c) == c = Nil \/ ents[c].dec

\* The call op has returned.
Returned(op) == api.op = op /\ api.pc = "done"

\* C23: a QueryData whose lookup finds no plugin, or a decommissioned one,
\* returns the empty response and a nil error without invoking a plugin;
\* and a QueryData that invoked no plugin has returned just that.
C23_QueryDataNoPlugin ==
    /\ [](Returned("QueryData") /\ ~Did("invoke") =>
            api.resp = "empty" /\ api.err = NoErr)
    /\ [][ api.op = "QueryData" /\ api.pc = "lookup_ck" /\ api' # api
             /\ NotEligible(api.found) =>
                /\ api'.pc = "done" /\ api'.resp = "empty" /\ api'.err = NoErr
                /\ api'.eff = <<"lookup">> ]_vars

\* QueryData for an id that is in the registry, decommissioned, has returned
\* the empty response.
C23_Witness ==
    /\ Returned("QueryData") /\ api.resp = "empty"
    /\ plugins[api.id] # Nil /\ ents[plugins[api.id]].dec

\* C24: a QueryData that invoked the plugin returns the plugin's response
\* and a nil error when the plugin succeeded; when it failed, a nil response
\* and the plugin's very error if that is or wraps one of the two sentinels,
\* else an error with the 'failed to query data' context that wraps the
\* plugin's error.
C24_QueryDataErrors ==
    Returned("QueryData") /\ Did("invoke") =>
      IF api.out.err = NoErr
      THEN api.resp = api.out.resp /\ api.resp \in {"resp1", "resp2"} /\ api.err = NoErr
      ELSE /\ api.resp = "nil"
           /\ IF Is(api.out.err, ErrMethodNotImplemented) \/ Is(api.out.err, ErrPluginUnavailable)
              THEN api.err = api.out.err
              ELSE /\ api.err # api.out.err
                   /\ api.err[1] = "failed to query data"
                   /\ \A i \in 1..Len(api.out.err) : Is(api.err, api.out.err[i])

\* The plugin failed with a wrapped PluginUnavailable and QueryData returned
\* that error as it was.
C24_Witness ==
    /\ Returned("QueryData") /\ Did("invoke")
    /\ api.out.err = <<"plugin context", ErrPluginUnavailable>> /\ api.err = api.out.err

\* C25: a CallResource whose validation failed has answered 403 'Access
\* denied' and has returned without a lookup, a stream or an invocation.
C25_DeniedCallResource ==
    api.op = "CallResource" /\ api.verr # NoErr =>
      /\ api.pc = "done"
      /\ api.http = << <<403, "Access denied">> >>
      /\ api.eff = << >> /\ api.found = Nil /\ api.p = Nil

\* A denied CallResource for a plugin that is registered.
C25_Witness ==
    /\ Returned("CallResource") /\ api.verr # NoErr
    /\ plugins[api.id] # Nil /\ ~ents[plugins[api.id]].dec

\* The status CallResource has answered with.
StatusWritten == api.http[1][1]

\* A CallResource that passed validation has returned with an error.
FailedAfterValidation ==
    Returned("CallResource") /\ api.verr = NoErr /\ api.err # NoErr

\* C26 as stated: 503 for a plugin that is not registered, 404 for one that
\* is unavailable, 500 for a method not implemented, 500 for everything else.
C26_AsStated ==
    FailedAfterValidation =>
      /\ Len(api.http) = 1
      /\ StatusWritten =
           IF Is(api.err, ErrPluginNotRegistered) THEN 503
           ELSE IF Is(api.err, ErrPluginUnavailable) THEN 404
           ELSE 500

\* C26, amended: a resource call that fails after validation is answered
\* with 503 when the plugin is unavailable, 404 when the method is not
\* implemented and 500 for every other error, a plugin that is not
\* registered included.
C26_ErrorStatus ==
    FailedAfterValidation =>
      /\ Len(api.http) = 1
      /\ StatusWritten =
           IF Is(api.err, ErrPluginUnavailable) THEN 503
           ELSE IF Is(api.err, ErrMethodNotImplemented) THEN 404
           ELSE 500

\* CallResource for an id with no plugin has answered 500.
C26_Witness ==
    /\ FailedAfterValidation /\ api.err = <<ErrPluginNotRegistered>>
    /\ api.http = << <<500, "Failed to call resource">> >>

\* C27: an error that is or wraps PluginUnavailable is answered with 503,
\* one that is or wraps MethodNotImplemented with 404; a CallResource that
\* failed has written one error response, and no CallResource writes more
\* than one or writes one without having failed.
C27_SentinelStatus ==
    /\ Len(api.http) <= 1
    /\ Returned("CallResource") =>
         /\ Len(api.http) = 1 <=> (api.err # NoErr \/ api.verr # NoErr)
         /\ api.verr = NoErr /\ Is(api.err, ErrPluginUnavailable) => StatusWritten = 503
         /\ api.verr = NoErr /\ Is(api.err, ErrMethodNotImplemented) => StatusWritten = 404

\* The plugin failed with a wrapped MethodNotImplemented and the one
\* response written is a 404.
C27_Witness ==
    /\ Returned("CallResource") /\ Did("invoke")
    /\ api.err = <<"plugin context", ErrMethodNotImplemented>>
    /\ api.http = << <<404, "Not found">> >>

\* C28: a CheckHealth whose validation failed has returned the result 403
\* 'Access denied' and a nil error without a lookup or an invocation,
\* whether or not the id is registered.
C28_DeniedCheckHealth ==
    api.op = "CheckHealth" /\ api.verr # NoErr =>
      /\ api.pc = "done"
      /\ api.resp = "403 Access denied" /\ api.err = NoErr
      /\ api.eff = << >> /\ api.found = Nil /\ api.p = Nil

\* A denied CheckHealth for an id that is not registered.
C28_Witness ==
    /\ Returned("CheckHealth") /\ api.verr # NoErr /\ plugins[api.id] = Nil
    /\ api.resp = "403 Access denied"

\* C29: a validated CheckHealth whose lookup finds no plugin, or a
\* decommissioned one, returns ErrPluginNotRegistered and a nil result; one
\* whose plugin failed returns the plugin's very error if that is or wraps
\* one of the two sentinels, else an error that is HealthCheckFailed and has
\* nothing of the plugin's error in it.
C29_CheckHealthErrors ==
    /\ [](Returned("CheckHealth") /\ api.verr = NoErr =>
            IF ~Did("invoke")
            THEN api.resp = "nil" /\ api.err = <<ErrPluginNotRegistered>>
            ELSE IF api.out.err = NoErr
            THEN api.resp = api.out.resp /\ api.err = NoErr
            ELSE /\ api.resp = "nil"
                 /\ IF Is(api.out.err, ErrMethodNotImplemented)
                         \/ Is(api.out.err, ErrPluginUnavailable)
                    THEN api.err = api.out.err
                    ELSE /\ Is(api.err, ErrHealthCheckFailed)
                         /\ \A i \in 1..Len(api.out.err) : ~Is(api.err, api.out.err[i]))
    /\ [][ api.op = "CheckHealth" /\ api.pc = "lookup_ck" /\ api' # api
             /\ NotEligible(api.found) =>
                api'.pc = "done" /\ api'.err = <<ErrPluginNotRegistered>>
                  /\ api'.eff = <<"lookup">> ]_vars

\* The plugin's health check failed with an error of its own and CheckHealth
\* returned HealthCheckFailed.
C29_Witness ==
    /\ Returned("CheckHealth") /\ Did("invoke")
    /\ api.out.err = <<"plugin context", "boom">> /\ Is(api.err, ErrHealthCheckFailed)

\* C30: a CollectMetrics whose lookup finds no plugin, or a decommissioned
\* one, returns ErrPluginNotRegistered and a nil result; otherwise it returns
\* the plugin's result and a nil error, or a nil result and the plugin's
\* very error.
C30_CollectMetrics ==
    /\ [](Returned("CollectMetrics") =>
            IF ~Did("invoke")
            THEN api.resp = "nil" /\ api.err = <<ErrPluginNotRegistered>>
            ELSE IF api.out.err = NoErr
            THEN api.resp = api.out.resp /\ api.err = NoErr
            ELSE api.resp = "nil" /\ api.err = api.out.err)
    /\ [][ api.op = "CollectMetrics" /\ api.pc = "lookup_ck" /\ api' # api
             /\ NotEligible(api.found) =>
                api'.pc = "done" /\ api'.err = <<ErrPluginNotRegistered>>
                  /\ api'.eff = <<"lookup">> ]_vars

\* The plugin failed with an error that is no sentinel and CollectMetrics
\* returned it as it was.
C30_Witness ==
    /\ Returned("CollectMetrics") /\ Did("invoke")
    /\ api.out.err = <<"plugin context", "boom">> /\ api.err = api.out.err

\* The WriteHeader calls made on the writer, and its other calls, in order.
StatusWrites == SelectSeq(w.out, LAMBDA e : e[1] = "WriteHeader")
BodyWrites   == SelectSeq(w.out, LAMBDA e : e[1] # "WriteHeader")

\* C21: at most one WriteHeader is made, before everything else, with the
\* status of the first chunk, and it is made exactly when the first chunk
\* has been processed and has headers; nothing of a later chunk's headers
\* is in the response header; the calls after it are Write(body), Flush for
\* the chunks received, in the order of the plugin's Send calls, and every
\* chunk Recv has taken is written before the loop calls Recv again or
\* returns.
C21_DrainWrites ==
    LET n == drain.processedStreams IN
      /\ Len(StatusWrites) <= 1
      /\ Len(StatusWrites) = 1 <=> (n >= 1 /\ ~plan[1].nil)
      /\ Len(StatusWrites) = 1 => w.out[1] = <<"WriteHeader", plan[1].Status>>
      /\ \A kv \in w.header : kv[1] # "X-Late" /\ kv[2] # "late"
      /\ Len(BodyWrites) = 2 * n
      /\ \A k \in 1..n : /\ BodyWrites[2 * k - 1] = <<"Write", k>>
                         /\ BodyWrites[2 * k] = <<"Flush", 0>>
      /\ n <= rcv.taken /\ rcv.taken <= n + 1
      /\ rcv.taken = n + 1 => drain.pc \in {"recv", "handle"} /\ rcv.got = n + 1

\* Three chunks, headers and status 200 on the first only, have been
\* drained: one WriteHeader(200), three writes, three flushes.
C21_Witness ==
    /\ Len(plan) = 3 /\ ~plan[1].nil /\ plan[1].Status = 200
    /\ plan[2].nil /\ plan[3].nil
    /\ drain.pc = "returned" /\ drain.res = "nil"
    /\ w.out = << <<"WriteHeader", 200>>, <<"Write", 1>>, <<"Flush", 0>>,
                  <<"Write", 2>>, <<"Flush", 0>>, <<"Write", 3>>, <<"Flush", 0>> >>

\* C22: the header of the response never has a Set-Cookie, and once the
\* first chunk is processed every value of every header of it that is not a
\* Set-Cookie under the writer's spelling is in the response header.
C22_NoSetCookie ==
    /\ \A kv \in w.header : kv[1] # "Set-Cookie"
    /\ drain.processedStreams >= 1 /\ ~plan[1].nil =>
         \A kv \in plan[1].Headers :
           CanonicalKey(kv[1]) # "Set-Cookie" => <<CanonicalKey(kv[1]), kv[2]>> \in w.header

\* C36: UnregisterAndStop never waits for the read lock of the registry's
\* mutex while it holds the write lock of it itself, so that Uninstall of a
\* registered plugin, and an Install that upgrades one, always return.
C36_NoSelfDeadlock ==
    \A t \in Threads :
      th[t].op \in {"UnregisterAndStop", "Uninstall", "Install"} =>
        ~(writer = t /\ th[t].pc = "uas_rd")

\* A thread is inside UnregisterAndStop.
InUAS(t) == th[t].pc \in {"uas_lock", "uas_rd", "uas_ck", "uas_dec", "uas_stop", "uas_del"}

\* C38: whenever no UnregisterAndStop is in progress every entry of the
\* registry is dispatch-eligible, so that in no such state an id is one that
\* Plugin reports absent and that Register refuses as already registered.
C38_EntriesEligible ==
    (\A t \in Threads : ~InUAS(t)) =>
      \A id \in Ids :
        /\ plugins[id] # Nil => ~ents[plugins[id]].dec
        /\ ~(/\ PluginResult(ents, PluginRead(plugins, id)) = Nil
             /\ RegisterOutcome(plugins, id, plugins[id]).err = "AlreadyRegistered")

\* C33: a resource call that has returned did so after the plugin's
\* CallResource and the drain loop had both finished; its result is the
\* plugin's error when there is one and else the error the drain loop
\* returned; and when the plugin sent nothing and returned success, the
\* context not cancelled, the result is the empty-response error.
C33_ResultOfCall ==
    call.pc = "done" =>
      /\ snd.pc = "returned" /\ drain.pc = "returned"
      /\ call.res = CallResourceInternalResult([err |-> call.err], FlushStreamErr)
      /\ Len(plan) = 0 /\ call.err = NoErr /\ ~stream.ctxDone =>
           call.res = <<"received empty resource response">>

\* C34: the drain loop that has returned with no chunk processed has
\* returned an error, the empty-response error when its last Recv returned
\* io.EOF; with at least one chunk processed it has returned no error, and
\* when its last Recv failed the stream is closed.
C34_DrainResult ==
    drain.pc = "returned" =>
      /\ drain.processedStreams = 0 =>
           /\ drain.res \in {"received empty resource response",
                             "failed to receive response from resource call"}
           /\ rcv.res = "EOF" => drain.res = "received empty resource response"
      /\ drain.processedStreams >= 1 =>
           /\ drain.res = "nil"
           /\ rcv.res # "EOF" => stream.chanClosed

\* C37: in a resource call the channel of the stream is closed at most once
\* and nothing is sent on it once it is closed: neither the plugin's Send,
\* nor the Close of the drain loop, nor the deferred Close ends in the panic
\* of a send on, or of a close of, a closed channel.
C37_ChannelClosedOnce ==
    /\ stream.closes <= 1
    /\ call.pc # "off" => snd.pc # "panic" /\ rcv.pc # "panic"

\* The supervision goroutine of c is running.
LoopRuns(c) == loop[c] \in {"wait", "ck_exit", "start"}

\* C35: a supervision loop whose context is done terminates; a loop ends
\* only at its select, on the Done case with nil for context.Canceled and
\* with the context's error otherwise, or on a tick at which the plugin is
\* decommissioned, with nil, and a select that finds the plugin
\* decommissioned always ends the loop; a loop that has ended stays ended,
\* keeps its result and starts the plugin no more.
C35_LoopTermination ==
    /\ \A c \in Cells : (LoopCtxDone /\ LoopRuns(c)) ~> (loop[c] = "ended")
    /\ [][ \A c \in Cells :
             /\ LoopRuns(c) /\ loop'[c] = "ended" =>
                  /\ loop[c] = "wait"
                  /\ \/ LoopCtxDone /\ loopCtx = "Canceled" /\ loopRes'[c] = "nil"
                     \/ LoopCtxDone /\ loopCtx # "Canceled" /\ loopRes'[c] = loopCtx
                     \/ ents[c].dec /\ loopRes'[c] = "nil"
             /\ loop[c] = "wait" /\ loop'[c] # "wait" /\ ents[c].dec => loop'[c] = "ended"
             /\ LoopRuns(c) /\ loop'[c] # "ended" => loopRes'[c] = "none"
             /\ loop[c] = "ended" =>
                  /\ loop'[c] = "ended" /\ loopRes'[c] = loopRes[c]
                  /\ ents'[c].proc = "running" => ents[c].proc = "running"
         ]_vars

\* The context's deadline has passed: one loop has ended on it with the
\* context's error, the other had ended before, with nil, on the tick that
\* found its plugin decommissioned.
C35_Witness ==
    /\ loopCtx = "DeadlineExceeded"
    /\ \E c, d \in Cells :
         /\ loop[c] = "ended" /\ loopRes[c] = "DeadlineExceeded" /\ ~ents[c].dec
         /\ loop[d] = "ended" /\ loopRes[d] = "nil" /\ ents[d].dec

\* The ids a listing accessor has returned.
Listed == {iter.res[k] : k \in 1..Len(iter.res)}

\* C31: Plugins and Renderer hand no caller an entity that was
\* decommissioned when they read it from the registry; and what Plugins has
\* returned has every entity once, has only registered entities of a
\* requested type, and, the registry not written meanwhile, has every
\* entity of a requested type that is registered and not decommissioned.
C31_Listing ==
    iter.pc = "done" =>
      /\ iter.op \in {"Plugins", "Renderer"} => ~iter.hitDec
      /\ iter.op = "Plugins" =>
           /\ \A j, k \in 1..Len(iter.res) : iter.res[j] = iter.res[k] => j = k
           /\ calls = 0 =>
                \A i \in Ids :
                  /\ i \in Listed =>
                       plugins[i] # Nil /\ ents[plugins[i]].type \in iter.types
                  /\ /\ PluginResult(ents, PluginRead(plugins, i)) # Nil
                     /\ ents[plugins[i]].type \in iter.types
                     => i \in Listed

\* C32: no read of the registry map overlaps a write of it: while a
\* goroutine is in the range over the map of Plugins, Renderer, StaticRoutes
\* or IsSupported no goroutine holds the write lock and no step writes the
\* map, and the runtime never finds the map written under a range.
C32_ReadsUnderLock ==
    /\ [](iter.pc = "iter" => writer = NoThread)
    /\ [](iter.pc # "fatal")
    /\ [][iter.pc = "iter" => plugins' = plugins]_vars

====
